---- MODULE Spec2Model ----
(***************************************************************************)
(* VaultVote: the VaultVoteEnhanced ledger (per-choice encrypted tallies   *)
(* and the request/resolve reveal protocol) and the server's nonce-bound   *)
(* toggle-hidden gateway.                                                  *)
(*                                                                         *)
(* Spec        the contract: every external function is one transaction;   *)
(*             a transaction that reverts changes no storage and emits no  *)
(*             event (EVM semantics); what a call would answer in a state  *)
(*             is the value of its ...Error operator there.                *)
(* SpecServer  the Express routes that issue and consume nonces.           *)
(*                                                                         *)
(* The FHE library is an external collaborator.  A ciphertext handle is    *)
(* modelled by a record that names the ciphertext (k, e, c, who, n) and    *)
(* carries the plaintext v the KMS would obtain by decrypting it; the      *)
(* contract never reads v.                                                 *)
(***************************************************************************)
EXTENDS Integers, Sequences, FiniteSets, TLC

\* ------------------------------------------------------------------ bounds
\* the election ids and the choice slots of the model: two elections, so that
\* one election's handles and proofs can be presented to the other, and the
\* smallest choice count createElection accepts
Ids == {0, 1}
Choices == {0, 1}
MaxElections == Cardinality(Ids)
MaxChoices == Cardinality(Choices)
\* the plaintexts a voter may encrypt are 1 .. MaxVoteValue ("should be
\* encrypted 1", castVote)
MaxVoteValue == 1

Addresses == {"owner", "alice"}
Deployer == "owner"
VoteValues == 1 .. MaxVoteValue
SeedValues == {0}
Cleartexts == 0 .. (Cardinality(Addresses) * MaxVoteValue)

\* enum ElectionState { Created, Open, Closed, Revealed }
Created == 0
Open == 1
Closed == 2
Revealed == 3

\* ------------------------------------------------------------------ state
VARIABLES
    owner,          \* address public owner
    electionCount,  \* uint256 public electionCount
    elections,      \* mapping(uint256 => Election)
    publicDec,      \* oracle ACL: handles marked publicly decryptable
    events,         \* events emitted by the last transaction, in order
    last,           \* the last transaction that succeeded: function, caller, arguments
    emitted,        \* history: how often each reveal event has been emitted so far
    nonceStore,     \* server: Map<string, NonceData>, as the set of its entries
    now,            \* server: Date.now(), in units of five minutes
    electionMetadata, \* server: storage's Map<number, ElectionMetadata>
    issued,         \* history: the nonce values randomBytes has produced so far
    passed,         \* history: per nonce value, the requests that passed every check
    resp,           \* server: the last HTTP exchange, request and response
    flips,          \* history: per election, whether its successful toggles are odd in number
    timers,         \* server: FileStorage's write timers that are pending (saveTimeout is the newest)
    dataFile,       \* server: the content of election-metadata.json
    loading,        \* server: where the constructor's loadData() stands
    writing,        \* server: the snapshots handed to fs.writeFile and not yet written
    call,           \* client: the hook's requestChoiceReveal call and where it stands
    eventPromise,   \* client: the promise that call waits on
    watch,          \* client: watchTallyRevealAndDecrypt's closure (listenerActive)
    registered,     \* client: the listeners registered on the contract object
    handlers,       \* client: the handler invocations so far, each with its position
    tally,          \* client: handleRevealTally's loop over the choices
    pending,        \* client: logs of the chain not yet handed to the hook's listener
    deleting,       \* client: handleDeleteElection's call and where it stands
    boot,           \* client: initApp's wait for the RelayerSDK global
    creating,       \* client: the hook's createElection call and where it stands
    fhevm,          \* client: fheClient's fhevmInstance and the initFhevm calls
    incoming        \* clients: the metadata saves still to be requested

ledger == <<owner, electionCount, elections, publicDec>>
chain == <<owner, electionCount, elections, publicDec, events, last, emitted>>
disk == <<dataFile, loading, writing>>
server == <<nonceStore, now, electionMetadata, issued, passed, resp, flips,
            timers, dataFile, loading, writing>>
relay == <<call, eventPromise, watch, registered, handlers>>
flow == <<tally, pending>>
aside == <<deleting, boot, creating, fhevm, incoming>>

\* ------------------------------------------------------------ FHE handles
\* bytes32(0): the value of an unset euint32 / bytes32 storage slot
NoHandle == [k |-> "nil", e |-> -1, c |-> -1, who |-> "none", n |-> 0, v |-> 0]

\* FHE.fromExternal(zeroInputs[i], zeroProofs[i]) for choice c of election id
SeedHandle(id, c, z) ==
    [k |-> "acc", e |-> id, c |-> c, who |-> "none", n |-> 0, v |-> z]

\* FHE.fromExternal(voteInput, voteProof): the voter's own ciphertext
VoteHandle(id, voter, x) ==
    [k |-> "in", e |-> id, c |-> -1, who |-> voter, n |-> 0, v |-> x]

\* FHE.add(acc, vote): a new ciphertext whose plaintext is the sum (euint32
\* arithmetic; the sums of this model stay far below 2^32, so no wrap occurs)
FheAdd(acc, vote) ==
    [acc EXCEPT !.n = acc.n + 1, !.v = acc.v + vote.v]

\* FHE.makePubliclyDecryptable(h) returns h itself; the ACL is what changes
MakePubliclyDecryptable(h) == h

\* FHE.toBytes32(h)
ToBytes32(h) == h

\* A decryption proof is the KMS signature over (handles, cleartexts).  The
\* KMS decrypts only handles that are publicly decryptable, and honestly.
KmsProofs == { [handles |-> <<h>>, cleartexts |-> h.v] : h \in publicDec }

ForgedProof == [handles |-> <<NoHandle>>, cleartexts |-> -1]

\* a verifier that has turned against a handle and refuses every proof
CheckSignaturesRefused(handlesList, cleartexts, proof) == FALSE

\* FHE.checkSignatures(handlesList, cleartexts, decryptionProof)
CheckSignatures(handlesList, cleartexts, proof) ==
    /\ proof \in KmsProofs
    /\ proof.handles = handlesList
    /\ proof.cleartexts = cleartexts

\* abi.decode(cleartexts, (uint32)): cleartexts is the 32-byte word the KMS
\* signed, modelled by the integer it encodes (always below 2^32 here)
AbiDecodeUint32(cleartexts) == cleartexts

\* ---------------------------------------------------------------- storage
\* the all-zero Election every id holds before anything is written to it
EmptyElection ==
    [ choiceLabels |-> <<>>,
      choiceCount |-> 0,
      state |-> Created,
      encryptedVotesPerChoice |-> [c \in Choices |-> NoHandle],
      revealedVotesPerChoice |-> [c \in Choices |-> 0],
      choiceRevealed |-> [c \in Choices |-> FALSE],
      userVotes |-> [a \in Addresses |-> NoHandle],
      hasVoted |-> [a \in Addresses |-> FALSE],
      fullyRevealed |-> FALSE,
      revealedChoiceCount |-> 0,
      expectedHandles |-> [c \in Choices |-> NoHandle] ]

NoArg == <<>>

\* arg: the arguments left; for requestChoiceReveal, the expectedHandles
\* entry the call found and overwrote
Call(op, caller, id, choice, arg) ==
    [op |-> op, caller |-> caller, id |-> id, choice |-> choice, arg |-> arg]

\* the reveal events of the log: ChoiceRevealed(id, c, n) is counted under
\* <<id, c>> whatever n, ElectionFullyRevealed(id) under <<id, -1>>
EmitKeys == Ids \X (Choices \cup {-1})
EventKey(ev) ==
    IF ev[1] = "ChoiceRevealed" THEN << ev[2], ev[3] >>
    ELSE IF ev[1] = "ElectionFullyRevealed" THEN << ev[2], -1 >>
    ELSE << -1, -1 >>
\* the counts after a transaction whose log is evs
Emit(evs) ==
    [k \in EmitKeys |->
        emitted[k] + Cardinality({ i \in 1 .. Len(evs) : EventKey(evs[i]) = k })]

\* A call whose ...Error is not "ok" reverts: the transaction is rolled back
\* and leaves storage and the event log as they were, a stuttering step.  Each
\* action below is therefore the successful execution of its function.

\* ================================================================== server
\* server/routes.ts: the nonce store and the toggle-hidden route.  A handler
\* has no await between reading the nonce store and its last write to it, and
\* the storage calls it awaits resolve in the same turn of the event loop, so
\* each request is handled in one step.
MaxNonces == 2
MaxClock == 2
\* expiresAt = Date.now() + (5 * 60 * 1000): the clock of the model counts in
\* units of five minutes, the lifetime of a nonce
NonceTtl == 1

NonceValues == 1 .. MaxNonces
\* a body field that is absent from the request
Absent == 0
\* parseInt(req.params.id, 10) of a path segment that is no number
NaN == -1

\* a message names its election by a decimal numeral, a sequence of digits
RECURSIVE ParseInt(_)
\* parseInt(match[1], 10) of a numeral that matched (\d+)
ParseInt(digits) ==
    IF digits = <<>> THEN NaN
    ELSE IF Len(digits) = 1 THEN digits[1]
    ELSE 10 * ParseInt(SubSeq(digits, 1, Len(digits) - 1)) + digits[Len(digits)]

\* `${election.id}`: the numeral of a number below ten, as the clients write it
FormatId(id) == << id >>

\* the numerals a message may carry: the one the clients write, and the
\* same with a leading zero
IdTexts == { FormatId(id) : id \in Ids } \cup { <<0>> \o FormatId(id) : id \in Ids }

NoMessage == [kind |-> "absent", id |-> <<>>, nonce |-> 0]
OtherMessage == [kind |-> "other", id |-> <<>>, nonce |-> 0]
\* the text "Toggle hidden for election " id " with nonce " nonce
ToggleMessage(id, nonce) == [kind |-> "toggle", id |-> id, nonce |-> nonce]
\* `Toggle hidden for election ${election.id} with nonce ${nonce}`
FormatMessage(electionId, nonce) == ToggleMessage(FormatId(electionId), nonce)
MessageInputs ==
    {NoMessage, OtherMessage} \cup
    { ToggleMessage(t, n) : t \in IdTexts, n \in NonceValues }
\* the messages sent with a request for electionId that presents nonce: none,
\* other text, a toggle text with any numeral and this nonce, or the
\* clients' text with any nonce
MessageInputsFor(electionId, nonce) ==
    {NoMessage, OtherMessage}
      \cup { ToggleMessage(t, nonce) : t \in IdTexts }
      \cup { FormatMessage(electionId, n) : n \in NonceValues }

NoSignature == [kind |-> "absent", signer |-> "none", msg |-> NoMessage]
BadSignature == [kind |-> "malformed", signer |-> "none", msg |-> NoMessage]
Sign(signer, msg) == [kind |-> "sig", signer |-> signer, msg |-> msg]
\* the signatures a client may send along with `message`: none, a malformed
\* one, anybody's signature over the message, or a signature over other text
SignatureInputs(message) ==
    {NoSignature, BadSignature, Sign(Deployer, OtherMessage)} \cup
    { Sign(a, message) : a \in Addresses }

\* ethers verifyMessage(message, signature): throws on a malformed signature,
\* otherwise recovers an address, which is the signer's only when the
\* signature was made over this very message
Threw == "threw"
VerifyMessage(message, signature) ==
    IF signature.kind # "sig" THEN Threw
    ELSE IF signature.msg = message THEN signature.signer
    ELSE "0xunrelated"

\* message.match(/^Toggle hidden for election (\d+) with nonce ([a-f0-9]+)$/)
MessageMatches(message) == message.kind = "toggle"

\* an optional field that its object does not have
Undefined == "undefined"
\* the strings a metadata field may hold
Texts == {"a"}

\* z.object({ electionId: z.number(), description: z.string().optional(), ...,
\* hidden: z.boolean().optional() }): an ElectionMetadata object.  hasHidden
\* tells whether the object has a hidden field; without one, hidden reads
\* FALSE here, as `!(existingMetadata?.hidden)` takes it.
ElectionMetadata(electionId, description, votingStartTime, votingEndTime, resultRevealTime, imageUrl, hasHidden, hidden) ==
    [present |-> TRUE, electionId |-> electionId,
     description |-> description, votingStartTime |-> votingStartTime,
     votingEndTime |-> votingEndTime, resultRevealTime |-> resultRevealTime,
     imageUrl |-> imageUrl, hasHidden |-> hasHidden, hidden |-> hidden]

\* this.electionMetadata.get(id) of an id the map has no entry for
NoMetadata ==
    [present |-> FALSE, electionId |-> NaN,
     description |-> Undefined, votingStartTime |-> Undefined,
     votingEndTime |-> Undefined, resultRevealTime |-> Undefined,
     imageUrl |-> Undefined, hasHidden |-> FALSE, hidden |-> FALSE]

\* { electionId, hidden: newHiddenState }: the object toggle-hidden saves
Metadata(electionId, hidden) ==
    ElectionMetadata(electionId, Undefined, Undefined, Undefined, Undefined,
                     Undefined, TRUE, hidden)

\* this.electionMetadata.set(metadata.electionId, metadata)
SaveElectionMetadata(store, metadata) ==
    [store EXCEPT ![metadata.electionId] = metadata]

\* election-metadata.json: whether it exists, and the entries it lists
DataFile(store) == [exists |-> TRUE, data |-> store]

\* the data file when it does not exist
NoFile == [exists |-> FALSE, data |-> [id \in Ids |-> NoMetadata]]

\* a debounceSave that sets its timer and clears none
DebounceSaveNoClear(pendingTimers) == pendingTimers + 1

\* clearTimeout(this.saveTimeout): the newest timer is cancelled when it is
\* still pending; the timers before it have fired or were cancelled
ClearTimeout(pendingTimers) == IF pendingTimers > 0 THEN pendingTimers - 1 ELSE 0

\* debounceSave(): clearTimeout(this.saveTimeout), then setTimeout(..., 500)
DebounceSave(pendingTimers) == ClearTimeout(pendingTimers) + 1

\* the store after its constructor, in a deployment without a data file:
\* loadData() has found no file and left the empty map alone
StorageInit ==
    /\ timers = 0
    /\ dataFile = NoFile
    /\ loading = "done"
    /\ writing = <<>>

NonceData(nonce, electionId, expiresAt) ==
    [nonce |-> nonce, electionId |-> electionId, expiresAt |-> expiresAt]

\* nonceStore.get(nonce): the entries stored under the key (at most one)
NonceGet(nonce) == { d \in nonceStore : d.nonce = nonce }

\* a delete that removes nothing
NonceDeleteNothing(nonce) == nonceStore

\* nonceStore.delete(nonce)
NonceDelete(nonce) == { d \in nonceStore : d.nonce # nonce }

Response(route, id, nonce, status, error) ==
    [route |-> route, id |-> id, nonce |-> nonce, status |-> status,
     error |-> error]

ServerInit ==
    /\ nonceStore = {}
    /\ now = 0
    /\ electionMetadata = [id \in Ids |-> NoMetadata]
    /\ issued = {}
    /\ passed = [n \in NonceValues |-> 0]
    /\ resp = Response("none", NaN, Absent, 0, "")
    /\ flips = [id \in Ids |-> FALSE]

\* randomBytes(32).toString('hex'): a value that was never produced before.
\* Which of the unused values it is makes no difference to any route, so the
\* model takes the least one.
RandomBytes ==
    { n \in NonceValues \ issued : \A m \in NonceValues \ issued : n <= m }

\* GET /api/election-metadata/:id/toggle-hidden/nonce
IssueNonceRoute(electionId) ==
    IF electionId = NaN
    THEN /\ resp' = Response("nonce", electionId, Absent, 400, "Invalid election ID")
         /\ UNCHANGED <<nonceStore, now, electionMetadata, issued, passed>>
         /\ UNCHANGED <<flips, timers, disk>>
    ELSE \E nonce \in RandomBytes :
         /\ nonceStore' = NonceDelete(nonce) \cup
                {NonceData(nonce, electionId, now + NonceTtl)}
         /\ issued' = issued \cup {nonce}
         /\ resp' = Response("nonce", electionId, nonce, 200, "")
         /\ UNCHANGED <<now, electionMetadata, passed>>
         /\ UNCHANGED <<flips, timers, disk>>

\* the route, requested by a client the model does not follow
IssueNonce(electionId) ==
    /\ IssueNonceRoute(electionId)
    /\ UNCHANGED <<chain, relay, flow, aside>>

\* the checks of toggle-hidden without the expiry check
ToggleHiddenErrorNoExpiry(electionId, message, signature, nonce) ==
    IF electionId = NaN THEN "Invalid election ID"
    ELSE IF message = NoMessage \/ signature = NoSignature \/ nonce = Absent
         THEN "Message, signature, and nonce required for authentication"
    ELSE IF NonceGet(nonce) = {} THEN "Invalid or expired nonce"
    ELSE IF \A d \in NonceGet(nonce) : d.electionId # electionId
         THEN "Nonce does not match election ID"
    ELSE IF VerifyMessage(message, signature) = Threw THEN "Invalid signature"
    ELSE IF ~MessageMatches(message) THEN "Invalid message format"
    ELSE IF ParseInt(message.id) # electionId \/ message.nonce # nonce
         THEN "Message data mismatch"
    ELSE "ok"

\* the answer of POST /api/election-metadata/:id/toggle-hidden, in the order
\* of the handler's checks; "ok" when every check passes
ToggleHiddenError(electionId, message, signature, nonce) ==
    IF electionId = NaN THEN "Invalid election ID"
    ELSE IF message = NoMessage \/ signature = NoSignature \/ nonce = Absent
         THEN "Message, signature, and nonce required for authentication"
    ELSE IF NonceGet(nonce) = {} THEN "Invalid or expired nonce"
    ELSE IF \A d \in NonceGet(nonce) : d.electionId # electionId
         THEN "Nonce does not match election ID"
    ELSE IF \A d \in NonceGet(nonce) : d.expiresAt < now THEN "Nonce expired"
    ELSE IF VerifyMessage(message, signature) = Threw THEN "Invalid signature"
    ELSE IF ~MessageMatches(message) THEN "Invalid message format"
    ELSE IF ParseInt(message.id) # electionId \/ message.nonce # nonce
         THEN "Message data mismatch"
    ELSE "ok"

ToggleHiddenStatus(err) ==
    IF err = "ok" THEN 200
    ELSE IF err \in {"Message, signature, and nonce required for authentication",
                     "Invalid or expired nonce", "Nonce expired",
                     "Invalid signature"} THEN 401
    ELSE 400

\* the errors the handler answers before it has deleted the nonce
ToggleHiddenKeepsNonce(err) ==
    err \in {"Invalid election ID",
             "Message, signature, and nonce required for authentication",
             "Invalid or expired nonce",
             "Nonce does not match election ID"}

ToggleHiddenRoute(electionId, message, signature, nonce) ==
    LET err == ToggleHiddenError(electionId, message, signature, nonce)
        existingMetadata == electionMetadata[electionId]
        newHiddenState == ~existingMetadata.hidden
    IN  /\ resp' = Response("toggle-hidden", electionId, nonce,
                            ToggleHiddenStatus(err), err)
        /\ nonceStore' = IF ToggleHiddenKeepsNonce(err) THEN nonceStore
                         ELSE NonceDelete(nonce)
        /\ IF err = "ok"
           THEN /\ electionMetadata' =
                      SaveElectionMetadata(electionMetadata,
                                           Metadata(electionId, newHiddenState))
                /\ timers' = DebounceSave(timers)
                /\ passed' = [passed EXCEPT ![nonce] = @ + 1]
                /\ flips' = [flips EXCEPT ![electionId] = ~@]
           ELSE UNCHANGED <<electionMetadata, timers, passed, flips>>
        /\ UNCHANGED <<now, issued, disk>>

\* the route, requested by a client the model does not follow
ToggleHidden(electionId, message, signature, nonce) ==
    /\ ToggleHiddenRoute(electionId, message, signature, nonce)
    /\ UNCHANGED <<chain, relay, flow, aside>>

\* setInterval(..., 60000): delete the entries whose expiresAt has passed
SweepNonces ==
    /\ \E d \in nonceStore : d.expiresAt < now
    /\ nonceStore' = { d \in nonceStore : ~(d.expiresAt < now) }
    /\ UNCHANGED <<now, electionMetadata, issued, passed, resp>>
    /\ UNCHANGED <<flips, timers, disk>>
    /\ UNCHANGED <<chain, relay, flow, aside>>

\* the clock advances
Tick ==
    /\ now < MaxClock
    /\ now' = now + 1
    /\ UNCHANGED <<nonceStore, electionMetadata, issued, passed, resp>>
    /\ UNCHANGED <<flips, timers, disk>>
    /\ UNCHANGED <<chain, relay, flow, aside>>

NextServer ==
    \/ \E electionId \in Ids \cup {NaN} : IssueNonce(electionId)
    \/ \E electionId \in Ids, nonce \in NonceValues \cup {Absent} :
            \E message \in MessageInputsFor(electionId, nonce) :
            \E signature \in SignatureInputs(message) :
                ToggleHidden(electionId, message, signature, nonce)
    \/ ToggleHidden(NaN, NoMessage, NoSignature, Absent)
    \/ SweepNonces
    \/ Tick

\* ------------------------------------------------------- client: the relay
\* The browser-side bridge between the contract's reveal-requested events and
\* the oracle: useVaultVote.ts requestChoiceReveal (the hook) and fheClient's
\* watchTallyRevealAndDecrypt (the watcher).  An async function runs up to its
\* next await in one step; every await whose outcome the environment decides
\* (a transaction, the oracle's answer) is a step of its own.
MaxDeliveries == 2

NoEventHandle == <<>>
EventHandle(id, choiceIdx) == << id, choiceIdx >>

\* ChoiceRevealRequested(electionId, choiceIndex, handle) as the listener gets it
RevealEvent(id, choiceIdx, handle) == [id |-> id, choiceIdx |-> choiceIdx, handle |-> handle]
EventInputs ==
    { RevealEvent(id, c, EventHandle(id, c)) : id \in Ids, c \in Choices }
        \cup { RevealEvent(id, c, NoEventHandle) : id \in Ids, c \in Choices }
\* TallyRevealRequested(id, tallyHandle) has no choice index
TallyEventInputs == { RevealEvent(id, -1, EventHandle(id, -1)) : id \in Ids }

NoError == "none"
IdleCall == [pc |-> "idle", id |-> -1, choiceIndex |-> -1, err |-> NoError]
NoPromise == [state |-> "none", err |-> NoError]
IdleTally == [pc |-> "idle", id |-> -1, i |-> 0, n |-> 0,
              successCount |-> 0, skippedCount |-> 0, revealedAtStart |-> {}]
IdleWatch == [pc |-> "idle", electionId |-> -1, listenerActive |-> FALSE]

\* one invocation of a listener's handler
Handler(by, event, pc, decrypts, submits, err) ==
    [by |-> by, event |-> event, pc |-> pc, decrypts |-> decrypts,
     submits |-> submits, err |-> err]

\* main.tsx before initApp() runs: the SDK's script not loaded, nothing rendered
BootStart ==
    [pc |-> "start", sdk |-> FALSE, waited |-> 0, timer |-> FALSE,
     rendered |-> 0, polls |-> 0]

\* the hook's createElection when it is not running
IdleCreate == [pc |-> "idle", made |-> -1, newElectionId |-> -1]

\* fheClient.ts as the module is loaded: fhevmInstance = null, createInstance
\* never invoked, no call of initFhevm under way
FheCallers == {1, 2, 3}
NoFhevm ==
    [fhevmInstance |-> 0, created |-> 0,
     calls |-> [p \in FheCallers |-> [pc |-> "idle", making |-> 0, returned |-> 0]]]

\* the saves the clients are going to request
MaxSaves == 2

\* handleDeleteElection when it is not running
IdleDelete == [pc |-> "idle", account |-> "none", id |-> -1, nonce |-> 0]

RelayInit ==
    /\ call = IdleCall
    /\ eventPromise = NoPromise
    /\ watch = IdleWatch
    /\ registered = {}
    /\ handlers = <<>>
    /\ tally = IdleTally
    /\ pending = <<>>
    /\ deleting = IdleDelete
    /\ boot = BootStart
    /\ creating = IdleCreate
    /\ fhevm = NoFhevm
    /\ incoming = MaxSaves

\* a handler that never calls resolve()
ResolveForgotten(p) == p

\* new Promise's resolve() and reject(err): only a pending promise settles
Resolve(p) == IF p.state = "pending" THEN [state |-> "resolved", err |-> NoError] ELSE p
Reject(p, err) == IF p.state = "pending" THEN [state |-> "rejected", err |-> err] ELSE p

\* contract.filters.ChoiceRevealRequested(id, null): the subscription passes
\* the events of this election, whatever their choice index
FilterPasses(event) == event.id = call.id

\* requestChoiceReveal(id, choiceIndex) up to its first await: the listener is
\* registered with on(), then the request transaction is sent
RequestChoiceRevealHookStep(id, choiceIndex, connected) ==
    /\ call.pc = "idle"
    /\ IF ~connected
         THEN /\ call' = [IdleCall EXCEPT !.pc = "rejected", !.err = "wallet not connected"]
              /\ UNCHANGED <<eventPromise, registered>>
         ELSE /\ call' = [pc |-> "requesting", id |-> id, choiceIndex |-> choiceIndex,
                          err |-> NoError]
              /\ eventPromise' = [state |-> "pending", err |-> NoError]
              /\ registered' = registered \cup {"hook"}
    /\ UNCHANGED <<watch, handlers>>

RequestChoiceRevealHook(id, choiceIndex, connected) ==
    /\ RequestChoiceRevealHookStep(id, choiceIndex, connected)
    /\ UNCHANGED <<chain, server, aside, flow>>

\* await writeContract.requestChoiceReveal(...); await tx.wait(): on failure
\* the catch removes every listener of the filter and rethrows
RequestTransactionStep(ok, err) ==
    /\ call.pc = "requesting"
    /\ IF ok
         THEN /\ call' = [call EXCEPT !.pc = "awaiting"]
              /\ UNCHANGED registered
         ELSE /\ call' = [call EXCEPT !.pc = "rejected", !.err = err]
              /\ registered' = registered \ {"hook"}
    /\ UNCHANGED <<eventPromise, watch, handlers>>

RequestTransaction(ok) ==
    /\ RequestTransactionStep(ok, "request failed")
    /\ UNCHANGED <<chain, server, aside, flow>>

\* await eventPromise, once it has settled
AwaitEventPromiseStep ==
    /\ call.pc = "awaiting"
    /\ eventPromise.state \in {"resolved", "rejected"}
    /\ IF eventPromise.state = "resolved"
         THEN /\ call' = [call EXCEPT !.pc = "fulfilled"]
              /\ UNCHANGED registered
         ELSE /\ call' = [call EXCEPT !.pc = "rejected", !.err = eventPromise.err]
              /\ registered' = registered \ {"hook"}
    /\ UNCHANGED <<eventPromise, watch, handlers>>

AwaitEventPromise ==
    /\ AwaitEventPromiseStep
    /\ UNCHANGED <<chain, server, aside, flow>>

\* handleEvent without the manual check of the choice index
HandleEventStartAnyChoice(event) ==
    IF event.handle = NoEventHandle
    THEN Handler("hook", event, "returned", 0, 0, "no handle")
    ELSE Handler("hook", event, "decrypting", 1, 0, NoError)

\* handleEvent up to its first await
HandleEventStart(event) ==
    IF event.choiceIdx # call.choiceIndex
    THEN Handler("hook", event, "skipped", 0, 0, NoError)
    ELSE IF event.handle = NoEventHandle
    THEN Handler("hook", event, "returned", 0, 0, "no handle")
    ELSE Handler("hook", event, "decrypting", 1, 0, NoError)

\* the subscription calls handleEvent with an event of the contract
DeliverEventStep(event) ==
    /\ "hook" \in registered
    /\ Len(handlers) < MaxDeliveries
    /\ FilterPasses(event)
    /\ handlers' = Append(handlers, HandleEventStart(event))
    /\ eventPromise' = IF HandleEventStart(event).err = "no handle"
                         THEN Reject(eventPromise, "no handle") ELSE eventPromise
    /\ UNCHANGED <<call, watch, registered>>

DeliverEvent(event) ==
    /\ DeliverEventStep(event)
    /\ UNCHANGED <<chain, server, aside, flow>>

\* cleanup() of watchTallyRevealAndDecrypt
CleanupWatch == IF ~watch.listenerActive THEN watch ELSE [watch EXCEPT !.listenerActive = FALSE]
CleanupRegistered == IF ~watch.listenerActive THEN registered ELSE registered \ {"watch"}

\* await decryptHandle(handle) has answered: fhe.publicDecrypt was called once
\* and either returned the value and its proof or threw.  On success the
\* resolve transaction is submitted; on failure the catch block runs (and, in
\* the hook, the finally block).
DecryptDoneStep(i, ok) ==
    /\ i \in 1 .. Len(handlers)
    /\ handlers[i].pc = "decrypting"
    /\ IF ok
         THEN /\ handlers' = [handlers EXCEPT ![i].pc = "submitting", ![i].submits = @ + 1]
              /\ UNCHANGED <<eventPromise, registered, watch>>
         ELSE /\ handlers' = [handlers EXCEPT ![i].pc = "failed",
                                              ![i].err = "decryption failed"]
              /\ IF handlers[i].by = "hook"
                   THEN /\ eventPromise' = Reject(eventPromise, "decryption failed")
                        /\ registered' = registered \ {"hook"}
                        /\ UNCHANGED watch
                   ELSE /\ watch' = CleanupWatch
                        /\ registered' = CleanupRegistered
                        /\ UNCHANGED eventPromise
    /\ UNCHANGED call

DecryptDone(i, ok) ==
    /\ DecryptDoneStep(i, ok)
    /\ UNCHANGED <<chain, server, aside, flow>>

\* await resolveChoiceCallback(...) / resolveTallyCallback(...); await tx.wait()
ResolveDoneStep(i, ok, err) ==
    /\ i \in 1 .. Len(handlers)
    /\ handlers[i].pc = "submitting"
    /\ handlers' = [handlers EXCEPT ![i].pc = IF ok THEN "done" ELSE "failed",
                                    ![i].err = IF ok THEN NoError ELSE err]
    /\ IF handlers[i].by = "hook"
         THEN /\ eventPromise' = IF ok THEN Resolve(eventPromise)
                                      ELSE Reject(eventPromise, err)
              /\ registered' = registered \ {"hook"}
              /\ UNCHANGED watch
         ELSE /\ watch' = CleanupWatch
              /\ registered' = CleanupRegistered
              /\ UNCHANGED eventPromise
    /\ UNCHANGED call

ResolveDone(i, ok) ==
    /\ ResolveDoneStep(i, ok, "resolve failed")
    /\ UNCHANGED <<chain, server, aside, flow>>

\* watchTallyRevealAndDecrypt(contract, electionId, onDecrypted)
WatchTallyRevealAndDecrypt(electionId) ==
    /\ watch.pc = "idle"
    /\ watch' = [pc |-> "watching", electionId |-> electionId, listenerActive |-> TRUE]
    /\ registered' = registered \cup {"watch"}
    /\ UNCHANGED <<call, eventPromise, handlers>>
    /\ UNCHANGED <<chain, server, aside, flow>>

\* eventHandler up to its first await
EventHandlerStart(event) ==
    IF event.id # watch.electionId \/ ~watch.listenerActive
    THEN Handler("watch", event, "skipped", 0, 0, NoError)
    ELSE Handler("watch", event, "decrypting", 1, 0, NoError)

\* the contract object calls eventHandler with a TallyRevealRequested event
DeliverTallyEvent(event) ==
    /\ "watch" \in registered
    /\ Len(handlers) < MaxDeliveries
    /\ handlers' = Append(handlers, EventHandlerStart(event))
    /\ UNCHANGED <<call, eventPromise, watch, registered>>
    /\ UNCHANGED <<chain, server, aside, flow>>

\* the cleanup function the watcher returned, called by its owner
Cleanup ==
    /\ watch.pc = "watching"
    /\ watch' = CleanupWatch
    /\ registered' = CleanupRegistered
    /\ UNCHANGED <<call, eventPromise, handlers>>
    /\ UNCHANGED <<chain, server, aside, flow>>

NextRelay ==
    \/ \E id \in Ids, choiceIndex \in Choices, connected \in BOOLEAN :
            RequestChoiceRevealHook(id, choiceIndex, connected)
    \/ \E ok \in BOOLEAN : RequestTransaction(ok)
    \/ AwaitEventPromise
    \/ \E event \in EventInputs : DeliverEvent(event)
    \/ \E i \in 1 .. MaxDeliveries, ok \in BOOLEAN : DecryptDone(i, ok)
    \/ \E i \in 1 .. MaxDeliveries, ok \in BOOLEAN : ResolveDone(i, ok)
    \/ \E electionId \in Ids : WatchTallyRevealAndDecrypt(electionId)
    \/ \E event \in TallyEventInputs : DeliverTallyEvent(event)
    \/ Cleanup

\* the contract after its constructor
ChainInit ==
    /\ owner = Deployer
    /\ electionCount = 0
    /\ elections = [id \in Ids |-> EmptyElection]
    /\ publicDec = {}
    /\ events = <<>>
    /\ last = Call("constructor", Deployer, -1, -1, NoArg)
    /\ emitted = [k \in EmitKeys |-> 0]

Init ==
    /\ ChainInit
    /\ ServerInit
    /\ StorageInit
    /\ RelayInit

\* ------------------------------------------------------------ createElection
LabelLists == UNION { [1 .. n -> {"L"}] : n \in 0 .. MaxChoices }

CreateElectionError(caller, labels, nInputs, nProofs) ==
    IF caller # owner THEN "only owner"
    ELSE IF ~(Len(labels) > 1) THEN "need at least 2 choices"
    ELSE IF nInputs # Len(labels) THEN "mismatch inputs"
    ELSE IF nProofs # Len(labels) THEN "mismatch proofs"
    ELSE "ok"

CreateElectionTx(caller, labels, nInputs, nProofs, z) ==
    LET err == CreateElectionError(caller, labels, nInputs, nProofs)
        id == electionCount
        arg == <<Len(labels), nInputs, nProofs>>
    IN  /\ electionCount < MaxElections
        /\ err = "ok"
        /\ electionCount' = electionCount + 1
        /\ elections' = [elections EXCEPT ![id] =
             [@ EXCEPT
                !.choiceLabels = labels,
                !.choiceCount = Len(labels),
                !.state = Created,
                !.fullyRevealed = FALSE,
                !.revealedChoiceCount = 0,
                !.encryptedVotesPerChoice =
                    [c \in Choices |->
                        IF c < Len(labels) THEN SeedHandle(id, c, z) ELSE @[c]],
                !.choiceRevealed =
                    [c \in Choices |->
                        IF c < Len(labels) THEN FALSE ELSE @[c]]]]
        /\ events' = << <<"ElectionCreated", id, labels>> >>
        /\ last' = Call("createElection", caller, id, -1, arg)
        /\ UNCHANGED <<owner, publicDec>>
        /\ emitted' = Emit(events')

\* the transaction, sent by a client the model does not follow
CreateElection(caller, labels, nInputs, nProofs, z) ==
    /\ CreateElectionTx(caller, labels, nInputs, nProofs, z)
    /\ UNCHANGED <<server, aside, relay, flow>>

\* -------------------------------------------------------------- openElection
OpenElectionError(caller, id) ==
    IF caller # owner THEN "only owner"
    ELSE IF elections[id].state # Created THEN "invalid state"
    ELSE "ok"

OpenElection(caller, id) ==
    LET err == OpenElectionError(caller, id)
    IN  /\ err = "ok"
        /\ elections' = [elections EXCEPT ![id].state = Open]
        /\ events' = << <<"ElectionOpened", id>> >>
        /\ last' = Call("openElection", caller, id, -1, NoArg)
        /\ UNCHANGED <<owner, electionCount, publicDec>>
        /\ emitted' = Emit(events')
        /\ UNCHANGED <<server, aside, relay, flow>>

\* ------------------------------------------------------------- closeElection
CloseElectionError(caller, id) ==
    IF caller # owner THEN "only owner"
    ELSE IF elections[id].state # Open THEN "not open"
    ELSE "ok"

CloseElection(caller, id) ==
    LET err == CloseElectionError(caller, id)
    IN  /\ err = "ok"
        /\ elections' = [elections EXCEPT ![id].state = Closed]
        /\ events' = << <<"ElectionClosed", id>> >>
        /\ last' = Call("closeElection", caller, id, -1, NoArg)
        /\ UNCHANGED <<owner, electionCount, publicDec>>
        /\ emitted' = Emit(events')
        /\ UNCHANGED <<server, aside, relay, flow>>

\* ------------------------------------------------------------------ castVote
\* castVote without its "election not open" check
CastVoteErrorAnyState(caller, id, choiceIndex) ==
    IF elections[id].hasVoted[caller] THEN "already voted"
    ELSE IF ~(choiceIndex < elections[id].choiceCount) THEN "invalid choice"
    ELSE "ok"

\* castVote without its "already voted" check
CastVoteErrorNoVotedCheck(caller, id, choiceIndex) ==
    IF elections[id].state # Open THEN "election not open"
    ELSE IF ~(choiceIndex < elections[id].choiceCount) THEN "invalid choice"
    ELSE "ok"

CastVoteError(caller, id, choiceIndex) ==
    IF elections[id].state # Open THEN "election not open"
    ELSE IF elections[id].hasVoted[caller] THEN "already voted"
    ELSE IF ~(choiceIndex < elections[id].choiceCount) THEN "invalid choice"
    ELSE "ok"

CastVote(caller, id, choiceIndex, x) ==
    LET err == CastVoteError(caller, id, choiceIndex)
        e == elections[id]
        vote == VoteHandle(id, caller, x)
    IN  /\ err = "ok"
        /\ elections' = [elections EXCEPT ![id] =
                  [@ EXCEPT
                     !.userVotes[caller] = vote,
                     !.encryptedVotesPerChoice[choiceIndex] =
                         FheAdd(e.encryptedVotesPerChoice[choiceIndex], vote),
                     !.hasVoted[caller] = TRUE]]
        /\ events' = << <<"VoteCast", id, caller, choiceIndex>> >>
        /\ last' = Call("castVote", caller, id, choiceIndex, NoArg)
        /\ UNCHANGED <<owner, electionCount, publicDec>>
        /\ emitted' = Emit(events')
        /\ UNCHANGED <<server, aside, relay, flow>>

\* ------------------------------------------------------- requestChoiceReveal
\* requestChoiceReveal without the onlyOwner modifier
RequestChoiceRevealErrorAnyone(caller, id, choiceIndex) ==
    IF elections[id].state # Closed THEN "must be closed"
    ELSE IF ~(choiceIndex < elections[id].choiceCount) THEN "invalid choice"
    ELSE IF elections[id].choiceRevealed[choiceIndex] THEN "already revealed"
    ELSE "ok"

\* requestChoiceReveal with the single-tally contract's guard against a
\* second request
RequestChoiceRevealErrorOnce(caller, id, choiceIndex) ==
    IF caller # owner THEN "only owner"
    ELSE IF elections[id].state # Closed THEN "must be closed"
    ELSE IF ~(choiceIndex < elections[id].choiceCount) THEN "invalid choice"
    ELSE IF elections[id].choiceRevealed[choiceIndex] THEN "already revealed"
    ELSE IF elections[id].expectedHandles[choiceIndex] # NoHandle
         THEN "reveal already requested"
    ELSE "ok"

RequestChoiceRevealError(caller, id, choiceIndex) ==
    IF caller # owner THEN "only owner"
    ELSE IF elections[id].state # Closed THEN "must be closed"
    ELSE IF ~(choiceIndex < elections[id].choiceCount) THEN "invalid choice"
    ELSE IF elections[id].choiceRevealed[choiceIndex] THEN "already revealed"
    ELSE "ok"

\* the transaction itself: what it does to the contract
RequestChoiceRevealTx(caller, id, choiceIndex) ==
    LET err == RequestChoiceRevealError(caller, id, choiceIndex)
        acc == MakePubliclyDecryptable(
                   elections[id].encryptedVotesPerChoice[choiceIndex])
        handle == ToBytes32(acc)
    IN  /\ err = "ok"
        /\ publicDec' = publicDec \cup {acc}
        /\ elections' = [elections EXCEPT ![id] =
                  [@ EXCEPT
                     !.encryptedVotesPerChoice[choiceIndex] = acc,
                     !.expectedHandles[choiceIndex] = handle]]
        /\ events' = << <<"ChoiceRevealRequested", id, choiceIndex, handle>> >>
        /\ last' = Call("requestChoiceReveal", caller, id, choiceIndex,
                        <<elections[id].expectedHandles[choiceIndex]>>)
        /\ UNCHANGED <<owner, electionCount>>
        /\ emitted' = Emit(events')

RequestChoiceReveal(caller, id, choiceIndex) ==
    /\ RequestChoiceRevealTx(caller, id, choiceIndex)
    /\ UNCHANGED <<server, aside, relay, flow>>

\* ----------------------------------------------------- resolveChoiceCallback
\* the handles list built from choice 0's entry whatever choiceIndex is
HandlesListFirstChoice(id, choiceIndex) == << elections[id].expectedHandles[0] >>

\* bytes32[] handlesList = [ e.expectedHandles[choiceIndex] ]
HandlesList(id, choiceIndex) == << elections[id].expectedHandles[choiceIndex] >>

\* the requires of resolveChoiceCallback without !e.choiceRevealed[choiceIndex]
ResolveChoiceCallbackErrorNoRevealedCheck(id, choiceIndex, cleartexts, proof) ==
    IF ~(id < electionCount) THEN "invalid election"
    ELSE IF elections[id].state # Closed THEN "must be closed"
    ELSE IF ~(choiceIndex < elections[id].choiceCount) THEN "invalid choice"
    ELSE IF ~CheckSignatures(HandlesList(id, choiceIndex), cleartexts, proof)
         THEN "invalid decryption proof"
    ELSE "ok"

ResolveChoiceCallbackError(id, choiceIndex, cleartexts, proof) ==
    IF ~(id < electionCount) THEN "invalid election"
    ELSE IF elections[id].state # Closed THEN "must be closed"
    ELSE IF ~(choiceIndex < elections[id].choiceCount) THEN "invalid choice"
    ELSE IF elections[id].choiceRevealed[choiceIndex] THEN "already revealed"
    ELSE IF ~CheckSignatures(HandlesList(id, choiceIndex), cleartexts, proof)
         THEN "invalid decryption proof"
    ELSE "ok"

\* the requires of resolveChoiceCallback without FHE.checkSignatures
ResolveChoiceCallbackErrorUnchecked(id, choiceIndex, cleartexts, proof) ==
    IF ~(id < electionCount) THEN "invalid election"
    ELSE IF elections[id].state # Closed THEN "must be closed"
    ELSE IF ~(choiceIndex < elections[id].choiceCount) THEN "invalid choice"
    ELSE IF elections[id].choiceRevealed[choiceIndex] THEN "already revealed"
    ELSE "ok"

\* resolveChoiceCallback that ignores the outcome of FHE.checkSignatures and
\* stores the submitted count whatever the proof
ResolveChoiceCallbackUnchecked(caller, id, choiceIndex, cleartexts, proof) ==
    LET err == ResolveChoiceCallbackErrorUnchecked(id, choiceIndex, cleartexts, proof)
        e == elections[id]
        voteCount == AbiDecodeUint32(cleartexts)
        count == e.revealedChoiceCount + 1
        full == (count = e.choiceCount)
    IN  /\ err = "ok"
        /\ elections' = [elections EXCEPT ![id] =
                  [@ EXCEPT
                     !.revealedVotesPerChoice[choiceIndex] = voteCount,
                     !.choiceRevealed[choiceIndex] = TRUE,
                     !.revealedChoiceCount = count,
                     !.state = IF full THEN Revealed ELSE @,
                     !.fullyRevealed = IF full THEN TRUE ELSE @]]
        /\ events' =
                  (IF full THEN << <<"ElectionFullyRevealed", id>> >> ELSE <<>>)
                  \o << <<"ChoiceRevealed", id, choiceIndex, voteCount>> >>
        /\ last' = Call("resolveChoiceCallback", caller, id, choiceIndex,
                        <<cleartexts, proof>>)
        /\ UNCHANGED <<owner, electionCount, publicDec>>
        /\ emitted' = Emit(events')
        /\ UNCHANGED <<server, aside, relay, flow>>

\* resolveChoiceCallback that sets fullyRevealed with the last choice but
\* forgets e.state = ElectionState.Revealed
ResolveChoiceCallbackNoAdvance(caller, id, choiceIndex, cleartexts, proof) ==
    LET err == ResolveChoiceCallbackError(id, choiceIndex, cleartexts, proof)
        e == elections[id]
        voteCount == AbiDecodeUint32(cleartexts)
        count == e.revealedChoiceCount + 1
        full == (count = e.choiceCount)
    IN  /\ err = "ok"
        /\ elections' = [elections EXCEPT ![id] =
                  [@ EXCEPT
                     !.revealedVotesPerChoice[choiceIndex] = voteCount,
                     !.choiceRevealed[choiceIndex] = TRUE,
                     !.revealedChoiceCount = count,
                     !.fullyRevealed = IF full THEN TRUE ELSE @]]
        /\ events' =
                  (IF full THEN << <<"ElectionFullyRevealed", id>> >> ELSE <<>>)
                  \o << <<"ChoiceRevealed", id, choiceIndex, voteCount>> >>
        /\ last' = Call("resolveChoiceCallback", caller, id, choiceIndex,
                        <<cleartexts, proof>>)
        /\ UNCHANGED <<owner, electionCount, publicDec>>
        /\ emitted' = Emit(events')
        /\ UNCHANGED <<server, aside, relay, flow>>

\* the transaction itself: what it does to the contract
ResolveChoiceCallbackTx(caller, id, choiceIndex, cleartexts, proof) ==
    LET err == ResolveChoiceCallbackError(id, choiceIndex, cleartexts, proof)
        e == elections[id]
        voteCount == AbiDecodeUint32(cleartexts)
        count == e.revealedChoiceCount + 1
        full == (count = e.choiceCount)
        arg == <<cleartexts, proof>>
    IN  /\ err = "ok"
        /\ elections' = [elections EXCEPT ![id] =
                  [@ EXCEPT
                     !.revealedVotesPerChoice[choiceIndex] = voteCount,
                     !.choiceRevealed[choiceIndex] = TRUE,
                     !.revealedChoiceCount = count,
                     !.state = IF full THEN Revealed ELSE @,
                     !.fullyRevealed = IF full THEN TRUE ELSE @]]
        /\ events' =
                  (IF full THEN << <<"ElectionFullyRevealed", id>> >> ELSE <<>>)
                  \o << <<"ChoiceRevealed", id, choiceIndex, voteCount>> >>
        /\ last' = Call("resolveChoiceCallback", caller, id, choiceIndex,
                             arg)
        /\ UNCHANGED <<owner, electionCount, publicDec>>
        /\ emitted' = Emit(events')

\* resolveChoiceCallback with an onlyOwner modifier
ResolveChoiceCallbackOnlyOwner(caller, id, choiceIndex, cleartexts, proof) ==
    /\ caller = owner
    /\ ResolveChoiceCallbackTx(caller, id, choiceIndex, cleartexts, proof)
    /\ UNCHANGED <<server, aside, relay, flow>>

ResolveChoiceCallback(caller, id, choiceIndex, cleartexts, proof) ==
    /\ ResolveChoiceCallbackTx(caller, id, choiceIndex, cleartexts, proof)
    /\ UNCHANGED <<server, aside, relay, flow>>

\* proofs a caller can submit: any signature the KMS has issued, or a forgery
ProofInputs == KmsProofs \cup {ForgedProof}

\* the cleartexts a caller submits along with a proof: the value the proof
\* certifies, or a value it does not certify
CleartextInputs(proof) ==
    { ct \in Cleartexts :
        \/ ct = proof.cleartexts
        \/ ct = (IF proof.cleartexts = 0 THEN 1 ELSE 0) }

\* ----------------------------------------------------------------- getWinner
RECURSIVE WinnerScan(_, _, _, _)
\* the loop of getWinner from index i on, with the running (index, votes)
WinnerScan(id, i, winningIndex, winningVotes) ==
    IF ~(i < elections[id].choiceCount)
    THEN [winningIndex |-> winningIndex, winningVotes |-> winningVotes]
    ELSE IF elections[id].revealedVotesPerChoice[i] > winningVotes
         THEN WinnerScan(id, i + 1, i, elections[id].revealedVotesPerChoice[i])
         ELSE WinnerScan(id, i + 1, winningIndex, winningVotes)

NotFullyRevealed == [winningIndex |-> -1, winningVotes |-> -1]

\* getWinner with >= for >: a later equal count takes the lead
GetWinnerLastMax(id) ==
    IF ~elections[id].fullyRevealed THEN NotFullyRevealed
    ELSE LET n == elections[id].choiceCount
             counts == elections[id].revealedVotesPerChoice
             i == CHOOSE j \in 0 .. (n - 1) :
                    /\ \A k \in 0 .. (n - 1) : counts[k] <= counts[j]
                    /\ \A k \in (j + 1) .. (n - 1) : counts[k] < counts[j]
         IN  [winningIndex |-> i, winningVotes |-> counts[i]]

\* view function; NotFullyRevealed stands for the revert "not fully revealed"
GetWinner(id) ==
    IF ~elections[id].fullyRevealed THEN NotFullyRevealed
    ELSE WinnerScan(id, 1, 0, elections[id].revealedVotesPerChoice[0])

\* ------------------------------------------------------- the reveal flow
\* handleRevealTally (pages/home.tsx and the Explore page) run in the owner's
\* browser against the contract: the hook's transactions are transactions of
\* the contract above, and the events the listener gets are the logs of those
\* transactions.  Here the election is election 0.
FlowIds == {0}
FlowLabels == [i \in 1 .. MaxChoices |-> "L"]

\* fhe.publicDecrypt([h]): the cleartext of h and the KMS signature over it
PublicDecrypt(h) == [handles |-> <<h>>, cleartexts |-> h.v]

\* error?.message?.includes("already revealed")
IncludesAlreadyRevealed(err) == err = "already revealed"

\* the elections the page lists (loadElections reads ids below electionCount)
\* and that are Closed; the loop bound is the number of labels loaded.
\* revealedAtStart remembers which choices were revealed when the run began.
HandleRevealTallyStart(id) ==
    /\ tally.pc = "idle"
    /\ call.pc = "idle"
    /\ id < electionCount
    /\ elections[id].state = Closed
    /\ tally' = [pc |-> IF Len(elections[id].choiceLabels) = 0 THEN "done" ELSE "loop",
                 id |-> id, i |-> 0, n |-> Len(elections[id].choiceLabels),
                 successCount |-> 0, skippedCount |-> 0,
                 revealedAtStart |-> { c \in Choices : elections[id].choiceRevealed[c] }]
    /\ UNCHANGED pending
    /\ UNCHANGED <<chain, server, aside, relay>>

\* await vaultVote.requestChoiceReveal(selectedElection.id, i, ...): the call
TallyCall ==
    /\ tally.pc = "loop"
    /\ RequestChoiceRevealHookStep(tally.id, tally.i, TRUE)
    /\ tally' = [tally EXCEPT !.pc = "awaiting"]
    /\ UNCHANGED pending
    /\ UNCHANGED <<chain, server, aside>>

\* the request transaction of the hook's call, executed by the contract: it
\* reverts when the contract refuses it, fails when it is not confirmed
\* (~confirmed), and otherwise its log is on its way to the listener
FlowRequestTransaction(confirmed) ==
    LET id == call.id
        c == call.choiceIndex
        err == RequestChoiceRevealError(owner, id, c)
    IN  /\ call.pc = "requesting"
        /\ IF confirmed /\ err = "ok"
             THEN /\ RequestChoiceRevealTx(owner, id, c)
                  /\ RequestTransactionStep(TRUE, NoError)
                  /\ pending' = Append(pending, RevealEvent(id, c, EventHandle(id, c)))
             ELSE /\ RequestTransactionStep(FALSE, IF err # "ok" THEN err ELSE "request failed")
                  /\ UNCHANGED chain
                  /\ UNCHANGED pending
        /\ UNCHANGED tally
        /\ UNCHANGED <<server, aside>>

\* the subscription hands the oldest outstanding log to handleEvent
FlowDeliverEvent ==
    /\ pending # <<>>
    /\ DeliverEventStep(Head(pending))
    /\ pending' = Tail(pending)
    /\ UNCHANGED tally
    /\ UNCHANGED <<chain, server, aside>>

\* the resolve transaction a handler submitted, executed by the contract with
\* what the oracle returned for the handle of the event: the accumulator of a
\* Closed election, which is the expected handle stored for the choice
FlowResolveTransaction(i, confirmed) ==
    /\ i \in 1 .. Len(handlers)
    /\ handlers[i].pc = "submitting"
    /\ LET id == handlers[i].event.id
           c == handlers[i].event.choiceIdx
           result == PublicDecrypt(elections[id].expectedHandles[c])
           err == ResolveChoiceCallbackError(id, c, result.cleartexts, result)
       IN  IF confirmed /\ err = "ok"
             THEN /\ ResolveChoiceCallbackTx(owner, id, c, result.cleartexts, result)
                  /\ ResolveDoneStep(i, TRUE, NoError)
             ELSE /\ ResolveDoneStep(i, FALSE, IF err # "ok" THEN err ELSE "resolve failed")
                  /\ UNCHANGED chain
    /\ UNCHANGED <<server, aside, flow>>

\* the awaited call has settled: count it, skip it, or rethrow
TallyReturn ==
    /\ tally.pc = "awaiting"
    /\ call.pc \in {"fulfilled", "rejected"}
    /\ LET next == IF tally.i + 1 < tally.n THEN "loop" ELSE "done"
       IN  tally' =
             IF call.pc = "fulfilled"
               THEN [tally EXCEPT !.successCount = @ + 1, !.i = @ + 1, !.pc = next]
             ELSE IF IncludesAlreadyRevealed(call.err)
               THEN [tally EXCEPT !.skippedCount = @ + 1, !.i = @ + 1, !.pc = next]
             ELSE [tally EXCEPT !.pc = "failed"]
    /\ call' = IdleCall
    /\ eventPromise' = NoPromise
    /\ UNCHANGED <<watch, registered, handlers, pending>>
    /\ UNCHANGED <<chain, server, aside>>

\* the other transactions of election 0: its life up to Closed, reveal
\* requests the owner sends by hand while no listener is registered, and
\* resolves submitted by anyone with the oracle's result
FlowSetup ==
    \/ \E z \in SeedValues :
            /\ electionCount = 0
            /\ CreateElection(owner, FlowLabels, MaxChoices, MaxChoices, z)
    \/ \E id \in FlowIds : OpenElection(owner, id)
    \/ \E id \in FlowIds : CloseElection(owner, id)
    \/ \E caller \in Addresses, id \in FlowIds, choiceIndex \in Choices, x \in VoteValues :
            CastVote(caller, id, choiceIndex, x)

FlowOthers ==
    \/ \E id \in FlowIds, choiceIndex \in Choices :
            /\ "hook" \notin registered
            /\ RequestChoiceReveal(owner, id, choiceIndex)
    \/ \E caller \in Addresses, id \in FlowIds, choiceIndex \in Choices :
            LET result == PublicDecrypt(elections[id].expectedHandles[choiceIndex])
            IN  ResolveChoiceCallback(caller, id, choiceIndex, result.cleartexts, result)

\* outcomes: what the network and the oracle may answer (TRUE: it works)
NextReveal(outcomes) ==
    \/ FlowSetup
    \/ FlowOthers
    \/ \E id \in FlowIds : HandleRevealTallyStart(id)
    \/ TallyCall
    \/ \E confirmed \in outcomes : FlowRequestTransaction(confirmed)
    \/ FlowDeliverEvent
    \/ \E i \in 1 .. MaxDeliveries, ok \in outcomes : DecryptDone(i, ok)
    \/ \E i \in 1 .. MaxDeliveries, confirmed \in outcomes : FlowResolveTransaction(i, confirmed)
    \/ AwaitEventPromise
    \/ TallyReturn

Next ==
    \/ \E caller \in Addresses, labels \in LabelLists,
          nInputs \in 0 .. MaxChoices, nProofs \in 0 .. MaxChoices, z \in SeedValues :
            CreateElection(caller, labels, nInputs, nProofs, z)
    \/ \E caller \in Addresses, id \in Ids : OpenElection(caller, id)
    \/ \E caller \in Addresses, id \in Ids : CloseElection(caller, id)
    \/ \E caller \in Addresses, id \in Ids, choiceIndex \in 0 .. MaxChoices,
          x \in VoteValues : CastVote(caller, id, choiceIndex, x)
    \/ \E caller \in Addresses, id \in Ids, choiceIndex \in 0 .. MaxChoices :
            RequestChoiceReveal(caller, id, choiceIndex)
    \/ \E caller \in Addresses, id \in Ids, choiceIndex \in 0 .. MaxChoices,
          proof \in ProofInputs :
            \E cleartexts \in CleartextInputs(proof) :
                ResolveChoiceCallback(caller, id, choiceIndex, cleartexts, proof)

vars == <<owner, electionCount, elections, publicDec, events, last, emitted,
          nonceStore, now, electionMetadata, issued, passed, resp,
          call, eventPromise, watch, registered, handlers, tally, pending,
          flips, timers, dataFile, loading, writing,
          deleting, boot, creating, fhevm, incoming>>

Spec == Init /\ [][Next]_vars

SpecServer == Init /\ [][NextServer]_vars

SpecRelay == Init /\ [][NextRelay]_vars

\* the reveal flow with every outcome of the network and the oracle
SpecReveal == Init /\ [][NextReveal(BOOLEAN)]_vars

\* the reveal flow when every transaction is confirmed unless the contract
\* refuses it, the oracle decrypts, and logs are delivered: the browser's
\* event loop runs every continuation that is ready
SpecRevealFair ==
    /\ Init
    /\ [][NextReveal({TRUE})]_vars
    /\ WF_vars(TallyCall)
    /\ WF_vars(FlowRequestTransaction(TRUE))
    /\ WF_vars(FlowDeliverEvent)
    /\ WF_vars(\E i \in 1 .. MaxDeliveries : DecryptDone(i, TRUE))
    /\ WF_vars(\E i \in 1 .. MaxDeliveries : FlowResolveTransaction(i, TRUE))
    /\ WF_vars(AwaitEventPromise)
    /\ WF_vars(TallyReturn)

\* ------------------------------------------------- the election metadata
\* The server's metadata store under all of its routes, and the home page's
\* delete button, which works through the toggle-hidden route.

\* the bodies a client may post: no election id that is a number, or an id
\* with none, one or all of the optional strings, without or with a hidden
\* field
BodyInputs ==
    { ElectionMetadata(electionId, f[1], f[2], f[2], f[2], f[2], h[1], h[2]) :
        electionId \in Ids \cup {NaN},
        f \in { <<d, t>> \in ({Undefined} \cup Texts) \X ({Undefined} \cup Texts) :
                    t = Undefined \/ d # Undefined },
        h \in {<<FALSE, FALSE>>, <<TRUE, FALSE>>, <<TRUE, TRUE>>} }

\* the answer of POST /api/election-metadata, in the order of its checks
PostMetadataError(body) ==
    IF body.electionId = NaN THEN "Invalid metadata"
    ELSE IF body.hasHidden
         THEN "Cannot update hidden field directly. Use POST /api/election-metadata/:id/toggle-hidden"
    ELSE "ok"

\* POST /api/election-metadata
PostMetadataRoute(body) ==
    LET err == PostMetadataError(body)
    IN  /\ resp' = Response("metadata", body.electionId, Absent,
                            IF err = "ok" THEN 200 ELSE 400, err)
        /\ IF err = "ok"
           THEN /\ electionMetadata' = SaveElectionMetadata(electionMetadata, body)
                /\ timers' = DebounceSave(timers)
           ELSE UNCHANGED <<electionMetadata, timers>>
        /\ UNCHANGED <<nonceStore, now, issued, passed, flips, disk>>

\* the route, requested by a client the model does not follow
PostMetadata(body) ==
    /\ PostMetadataRoute(body)
    /\ UNCHANGED <<chain, relay, flow, aside>>

\* handleDeleteElection up to the wallet's signature: the owner's page, an
\* election the contract holds in the Created state, the confirm dialog
\* accepted, and the nonce fetched
HandleDeleteElectionStart(account, id) ==
    /\ deleting.pc = "idle"
    /\ account = owner
    /\ id < electionCount
    /\ elections[id].state = Created
    /\ IssueNonceRoute(id)
    /\ deleting' = [pc |-> "signing", account |-> account, id |-> id,
                    nonce |-> resp'.nonce]
    /\ UNCHANGED <<chain, relay, flow, boot, creating, fhevm, incoming>>

\* handleDeleteElection from the wallet's signature on: the signed message
\* goes to toggle-hidden; a refused signature ends the call with the
\* "Delete Failed" toast
HandleDeleteElectionSubmit(signed) ==
    /\ deleting.pc = "signing"
    /\ IF signed
       THEN LET message == FormatMessage(deleting.id, deleting.nonce)
            IN  ToggleHiddenRoute(deleting.id, message,
                                  Sign(deleting.account, message),
                                  deleting.nonce)
       ELSE UNCHANGED server
    /\ deleting' = IdleDelete
    /\ UNCHANGED <<chain, relay, flow, boot, creating, fhevm, incoming>>

\* the owner creates an election and opens it
MetadataSetup ==
    \/ \E z \in SeedValues :
            /\ electionCount = 0
            /\ CreateElection(owner, FlowLabels, MaxChoices, MaxChoices, z)
    \/ \E id \in FlowIds : OpenElection(owner, id)

\* the requests the pages send to the nonce and toggle-hidden routes, each
\* with the text the pages write, signed by the account of its wallet
MetadataRequests ==
    \/ \E electionId \in Ids : IssueNonce(electionId)
    \/ \E electionId \in Ids, nonce \in NonceValues, account \in Addresses :
            LET message == FormatMessage(electionId, nonce)
            IN  ToggleHidden(electionId, message, Sign(account, message), nonce)
    \/ SweepNonces
    \/ Tick

NextMetadata ==
    \/ MetadataRequests
    \/ \E body \in BodyInputs : PostMetadata(body)
    \/ \E account \in Addresses, id \in Ids : HandleDeleteElectionStart(account, id)
    \/ \E signed \in BOOLEAN : HandleDeleteElectionSubmit(signed)
    \/ MetadataSetup

SpecMetadata == Init /\ [][NextMetadata]_vars

\* ------------------------------------------------------------ initApp
\* main.tsx: initApp renders at once when the RelayerSDK global is there, and
\* otherwise polls for it every checkInterval milliseconds up to maxWait.
MaxWait == 10000
CheckInterval == 100

\* a checkSDK that returns at the deadline without rendering
CheckSDKGivesUp(b) ==
    IF b.sdk
    THEN [b EXCEPT !.rendered = @ + 1, !.pc = "done"]
    ELSE IF b.waited + CheckInterval >= MaxWait
         THEN [b EXCEPT !.waited = @ + CheckInterval, !.pc = "done"]
    ELSE [b EXCEPT !.waited = @ + CheckInterval, !.timer = TRUE, !.pc = "polling"]

\* checkSDK(): render when the global is there or the wait is used up,
\* otherwise setTimeout(checkSDK, checkInterval)
CheckSDK(b) ==
    IF b.sdk
    THEN [b EXCEPT !.rendered = @ + 1, !.pc = "done"]
    ELSE IF b.waited + CheckInterval >= MaxWait
         THEN [b EXCEPT !.waited = @ + CheckInterval, !.rendered = @ + 1,
                        !.pc = "done"]
    ELSE [b EXCEPT !.waited = @ + CheckInterval, !.timer = TRUE, !.pc = "polling"]

\* the CDN script defines window.RelayerSDK
LoadSDK ==
    /\ ~boot.sdk
    /\ boot' = [boot EXCEPT !.sdk = TRUE]
    /\ UNCHANGED <<chain, server, relay, flow, deleting, creating, fhevm, incoming>>

\* initApp(): the check of line 18, and without the global checkSDK()'s
\* first call, which runs in the same turn and sees the same window
InitApp ==
    /\ boot.pc = "start"
    /\ boot' = IF boot.sdk
               THEN [boot EXCEPT !.rendered = @ + 1, !.pc = "done"]
               ELSE CheckSDK(boot)
    /\ UNCHANGED <<chain, server, relay, flow, deleting, creating, fhevm, incoming>>

\* the timer set by setTimeout(checkSDK, checkInterval) fires
CheckSDKTimer ==
    /\ boot.timer
    /\ boot' = CheckSDK([boot EXCEPT !.timer = FALSE, !.polls = @ + 1])
    /\ UNCHANGED <<chain, server, relay, flow, deleting, creating, fhevm, incoming>>

NextInitApp ==
    \/ LoadSDK
    \/ InitApp
    \/ CheckSDKTimer

\* the module's top level calls initApp(), and a timer that is set fires
SpecInitApp ==
    /\ Init
    /\ [][NextInitApp]_vars
    /\ WF_vars(InitApp)
    /\ WF_vars(CheckSDKTimer)

\* ------------------------------------------------------------ the tally
\* One election from its creation to its reveal, where the ciphertexts the
\* owner passes to createElection as zeroInputs encrypt whatever the owner
\* chose: the contract takes them through FHE.fromExternal and cannot tell.
SeedInputs == {0, 1}

NextTally ==
    \/ \E z \in SeedInputs :
            /\ electionCount = 0
            /\ CreateElection(owner, FlowLabels, MaxChoices, MaxChoices, z)
    \/ \E id \in FlowIds : OpenElection(owner, id)
    \/ \E id \in FlowIds : CloseElection(owner, id)
    \/ \E caller \in Addresses, id \in FlowIds, choiceIndex \in Choices, x \in VoteValues :
            CastVote(caller, id, choiceIndex, x)
    \/ FlowOthers

SpecTally == Init /\ [][NextTally]_vars

\* ---------------------------------------------- the hook's createElection
\* useVaultVote.ts createElection from its transaction on: the transaction
\* is confirmed, the hook reads electionCount, and posts the metadata under
\* the count less one.  Other pages of the owner send their own
\* createElection transactions, and the chain orders them as it likes.

\* the zero the hook encrypts for every choice
EncryptZero == 0

\* await writeContract.createElection(...); await tx.wait(): the transaction
\* is confirmed; made is the id the contract assigned in it
HookCreateElection ==
    /\ creating.pc \in {"idle", "saved"}
    /\ CreateElectionTx(owner, FlowLabels, MaxChoices, MaxChoices, EncryptZero)
    /\ creating' = [pc |-> "confirmed", made |-> electionCount, newElectionId |-> -1]
    /\ UNCHANGED <<server, relay, flow, deleting, boot, fhevm, incoming>>

\* newElectionId = Number(await readContract.electionCount()) - 1
HookReadElectionCount ==
    /\ creating.pc = "confirmed"
    /\ creating' = [creating EXCEPT !.pc = "read", !.newElectionId = electionCount - 1]
    /\ UNCHANGED <<chain, server, relay, flow, deleting, boot, fhevm, incoming>>

\* fetch('/api/election-metadata', { method: 'POST', body: metadata })
HookSaveMetadata(description) ==
    /\ creating.pc = "read"
    /\ PostMetadataRoute(ElectionMetadata(creating.newElectionId, description,
                                          Undefined, Undefined, Undefined,
                                          Undefined, FALSE, FALSE))
    /\ creating' = [creating EXCEPT !.pc = "saved"]
    /\ UNCHANGED <<chain, relay, flow, deleting, boot, fhevm, incoming>>

NextCreate ==
    \/ HookCreateElection
    \/ HookReadElectionCount
    \/ \E description \in Texts \cup {Undefined} : HookSaveMetadata(description)
    \/ \E z \in SeedValues :
            CreateElection(owner, FlowLabels, MaxChoices, MaxChoices, z)
    \/ \E id \in Ids : OpenElection(owner, id)
    \/ \E id \in Ids : CloseElection(owner, id)
    \/ \E body \in BodyInputs : PostMetadata(body)

SpecCreate == Init /\ [][NextCreate]_vars

\* ------------------------------------------------------------ FileStorage
\* storage.ts when the server starts: the constructor has returned with the
\* empty map while loadData()'s readFile is under way, and the routes save
\* through saveElectionMetadata.  A write handed to fs.writeFile lands after
\* the writes handed over before it.

\* the data file a start may find: none, or the entries an earlier run wrote
FileInputs ==
    { NoFile,
      DataFile([id \in Ids |->
                  IF id = 0
                  THEN ElectionMetadata(0, "a", Undefined, Undefined, Undefined,
                                        Undefined, FALSE, FALSE)
                  ELSE NoMetadata]) }

\* new FileStorage(): the map is empty and loadData() has been called
StorageStart ==
    /\ timers = 0
    /\ dataFile \in FileInputs
    /\ loading = "reading"
    /\ writing = <<>>

InitStorage ==
    /\ ChainInit
    /\ ServerInit
    /\ StorageStart
    /\ RelayInit

\* loadData() after its await: with a file that was read and parsed the map
\* is replaced by a new Map of the file's entries; without one the catch
\* leaves the map as it is
LoadData ==
    /\ loading = "reading"
    /\ loading' = "done"
    /\ electionMetadata' = IF dataFile.exists THEN dataFile.data ELSE electionMetadata
    /\ UNCHANGED <<nonceStore, now, issued, passed, resp, flips, timers,
                   dataFile, writing>>
    /\ UNCHANGED <<chain, relay, flow, aside>>

\* a client posts metadata, one of the requests still to come
SaveRequest(body) ==
    /\ incoming > 0
    /\ incoming' = incoming - 1
    /\ PostMetadataRoute(body)
    /\ UNCHANGED <<chain, relay, flow, deleting, boot, creating, fhevm>>

\* the write timer fires: saveData() takes Array.from(map.values()) and hands
\* it to fs.writeFile
SaveData ==
    /\ timers > 0
    /\ timers' = timers - 1
    /\ writing' = Append(writing, electionMetadata)
    /\ UNCHANGED <<nonceStore, now, electionMetadata, issued, passed, resp,
                   flips, dataFile, loading>>
    /\ UNCHANGED <<chain, relay, flow, aside>>

\* fs.writeFile settles: the file holds the snapshot, or the write failed
\* and saveData's catch logged it
WriteFile(ok) ==
    /\ writing # <<>>
    /\ writing' = Tail(writing)
    /\ dataFile' = IF ok THEN DataFile(Head(writing)) ELSE dataFile
    /\ UNCHANGED <<nonceStore, now, electionMetadata, issued, passed, resp,
                   flips, timers, loading>>
    /\ UNCHANGED <<chain, relay, flow, aside>>

\* outcomes: how a write to the disk may end (TRUE: it is written)
NextStorage(outcomes) ==
    \/ LoadData
    \/ \E body \in BodyInputs : SaveRequest(body)
    \/ SaveData
    \/ \E ok \in outcomes : WriteFile(ok)

SpecStorage == InitStorage /\ [][NextStorage(BOOLEAN)]_vars

\* the store on a disk that works: the read settles, a timer that is set
\* fires, and a write that was started lands
SpecStorageFair ==
    /\ InitStorage
    /\ [][NextStorage({TRUE})]_vars
    /\ WF_vars(LoadData)
    /\ WF_vars(SaveData)
    /\ WF_vars(WriteFile(TRUE))

\* -------------------------------------------------------------- initFhevm
\* fheClient.ts initFhevm, called by connectWallet and by every encryption
\* and decryption helper.  fhevmInstance is 0 for null, and otherwise the
\* number of the createInstance call that made the instance.

\* initFhevm() up to its first await: the instance when there is one, an
\* error without the SDK's global, and otherwise the call of initSDK()
InitFhevm(p) ==
    /\ fhevm.calls[p].pc = "idle"
    /\ fhevm' = [fhevm EXCEPT !.calls[p] =
            IF fhevm.fhevmInstance # 0
            THEN [@ EXCEPT !.pc = "returned", !.returned = fhevm.fhevmInstance]
            ELSE IF ~boot.sdk THEN [@ EXCEPT !.pc = "threw"]
            ELSE [@ EXCEPT !.pc = "initSDK"]]
    /\ UNCHANGED <<chain, server, relay, flow, deleting, boot, creating, incoming>>

\* await initSDK() settles and the call invokes createInstance(config)
CreateInstance(p) ==
    /\ fhevm.calls[p].pc = "initSDK"
    /\ fhevm' = [fhevm EXCEPT !.created = @ + 1,
                              !.calls[p].pc = "creating",
                              !.calls[p].making = fhevm.created + 1]
    /\ UNCHANGED <<chain, server, relay, flow, deleting, boot, creating, incoming>>

\* await createInstance(config) settles: the call stores and returns the
\* instance it was given, or rethrows
CreateInstanceDone(p, ok) ==
    /\ fhevm.calls[p].pc = "creating"
    /\ fhevm' = IF ok
                THEN [fhevm EXCEPT !.fhevmInstance = fhevm.calls[p].making,
                                   !.calls[p].pc = "returned",
                                   !.calls[p].returned = fhevm.calls[p].making]
                ELSE [fhevm EXCEPT !.calls[p].pc = "threw"]
    /\ UNCHANGED <<chain, server, relay, flow, deleting, boot, creating, incoming>>

NextFhevm ==
    \/ LoadSDK
    \/ \E p \in FheCallers : InitFhevm(p)
    \/ \E p \in FheCallers : CreateInstance(p)
    \/ \E p \in FheCallers, ok \in BOOLEAN : CreateInstanceDone(p, ok)

SpecFhevm == Init /\ [][NextFhevm]_vars

\* ================================================================== claims
NonOwners == Addresses \ {owner}
Requested(id, c) ==
    /\ elections[id].state = Closed
    /\ c < elections[id].choiceCount
    /\ ~elections[id].choiceRevealed[c]
    /\ elections[id].expectedHandles[c] # NoHandle

\* C1: the state of every election id only moves forward through
\* Created < Open < Closed < Revealed, one state at a time.
\* Violated: openElection accepts an id no createElection has assigned yet,
\* and the createElection that later assigns it sets the state back to Created.
C1_StateOnlyForward ==
    [][\A id \in Ids :
          \/ elections'[id].state = elections[id].state
          \/ elections'[id].state = elections[id].state + 1]_vars

\* C2: castVote by a voter is accepted exactly when the election is Open, the
\* choice index is below choiceCount and the voter has not voted; an accepted
\* vote sets hasVoted of the voter, a vote is accepted only from a voter whose
\* hasVoted was false, and no step ever sets hasVoted back to false.
C2_CastVoteOncePerVoter ==
    /\ [](\A a \in Addresses, id \in Ids, c \in 0 .. MaxChoices, x \in VoteValues :
            ENABLED CastVote(a, id, c, x)
              <=> /\ elections[id].state = Open
                  /\ c < elections[id].choiceCount
                  /\ ~elections[id].hasVoted[a])
    /\ [][\A a \in Addresses, id \in Ids :
            /\ elections[id].hasVoted[a] => elections'[id].hasVoted[a]
            /\ (\E c \in Choices, x \in VoteValues : CastVote(a, id, c, x))
                 => ~elections[id].hasVoted[a] /\ elections'[id].hasVoted[a]]_vars

\* an election still Open in which alice's vote was just accepted, so that a
\* second castVote by alice is the rejected case
C2_Witness ==
    /\ last.op = "castVote"
    /\ last.caller = "alice"
    /\ elections[last.id].state = Open
    /\ elections[last.id].hasVoted["alice"]
    /\ ~elections[last.id].hasVoted["owner"]

\* C3: once (id, c) has been resolved, every later resolveChoiceCallback for
\* (id, c) fails with "already revealed", also when c was the last choice.
\* Violated: after the last choice the election is Revealed and the call
\* fails with "must be closed", the check that comes first.
C3_SecondResolveAlreadyRevealed ==
    \A id \in Ids, c \in Choices, cleartexts \in Cleartexts, proof \in ProofInputs :
        (c < elections[id].choiceCount /\ elections[id].choiceRevealed[c])
          => ResolveChoiceCallbackError(id, c, cleartexts, proof) = "already revealed"

\* C4: resolveChoiceCallback is accepted only with a KMS proof over exactly the
\* handle stored in expectedHandles[c] at request time and the cleartext that
\* handle decrypts to; a proof over any other handle is rejected whatever its
\* cleartext, and a revealed count is the plaintext of the expected handle.
C4_ResolveBoundToExpectedHandle ==
    /\ \A proof \in ProofInputs, cleartexts \in Cleartexts, id \in Ids, c \in Choices :
          ResolveChoiceCallbackError(id, c, cleartexts, proof) = "ok"
            => /\ proof.handles = << elections[id].expectedHandles[c] >>
               /\ elections[id].expectedHandles[c] \in publicDec
               /\ cleartexts = elections[id].expectedHandles[c].v
    /\ \A id \in Ids, c \in Choices :
          elections[id].choiceRevealed[c]
            => elections[id].revealedVotesPerChoice[c]
                 = elections[id].expectedHandles[c].v

\* a requested choice for which the KMS has also signed another handle with
\* the same cleartext, and that proof is refused
C4_Witness ==
    \E id \in Ids, c \in Choices, proof \in KmsProofs :
        /\ Requested(id, c)
        /\ proof.handles # << elections[id].expectedHandles[c] >>
        /\ proof.cleartexts = elections[id].expectedHandles[c].v
        /\ ResolveChoiceCallbackError(id, c, proof.cleartexts, proof)
             = "invalid decryption proof"
        /\ \E other \in Choices : elections[id].choiceRevealed[other]

\* C5: over any sequence of requests, at most one toggle-hidden request that
\* presents a given nonce value passes every check and toggles the flag.
C5_NonceAcceptedAtMostOnce ==
    \A n \in NonceValues : passed[n] <= 1

\* a nonce that was accepted once and whose replay has just been refused
C5_Witness ==
    /\ resp.route = "toggle-hidden"
    /\ resp.nonce \in NonceValues
    /\ passed[resp.nonce] = 1
    /\ resp.error = "Invalid or expired nonce"

\* C6: a toggle-hidden request that looks its nonce up (a numeric id and a
\* complete body) and finds it in the store leaves the store without it,
\* whatever the request's outcome.
\* Violated: the answer "Nonce does not match election ID" returns before the
\* delete, so the nonce stays and a retry with the right id is accepted.
C6_NonceConsumedWhateverOutcome ==
    [][\A electionId \in Ids, message \in MessageInputs \ {NoMessage},
         nonce \in NonceValues :
        \A signature \in SignatureInputs(message) \ {NoSignature} :
            (NonceGet(nonce) # {}
               /\ ToggleHidden(electionId, message, signature, nonce))
              => \A d \in nonceStore' : d.nonce # nonce]_vars

\* C7: on a fully revealed election getWinner answers the lowest index among
\* the choices with the maximum revealed count, with that count; otherwise
\* it reverts.
C7_WinnerIsLowestIndexOfMax ==
    \A id \in Ids :
        LET n == elections[id].choiceCount
            counts == elections[id].revealedVotesPerChoice
            w == GetWinner(id)
        IN  IF elections[id].fullyRevealed
            THEN /\ w.winningIndex \in 0 .. (n - 1)
                 /\ w.winningVotes = counts[w.winningIndex]
                 /\ \A j \in 0 .. (n - 1) : counts[j] <= w.winningVotes
                 /\ \A j \in 0 .. (w.winningIndex - 1) : counts[j] < w.winningVotes
            ELSE w = NotFullyRevealed

\* a fully revealed election whose two choices tie with one vote each
C7_Witness ==
    \E id \in Ids :
        /\ elections[id].fullyRevealed
        /\ elections[id].revealedVotesPerChoice[0] = 1
        /\ elections[id].revealedVotesPerChoice[1] = 1
        /\ GetWinner(id) = [winningIndex |-> 0, winningVotes |-> 1]

C9_UnrequestedResolveNotRequested ==
    \A id \in Ids, c \in Choices, cleartexts \in Cleartexts, proof \in ProofInputs :
        ( /\ id < electionCount
          /\ elections[id].state = Closed
          /\ c < elections[id].choiceCount
          /\ elections[id].expectedHandles[c] = NoHandle )
          => ResolveChoiceCallbackError(id, c, cleartexts, proof)
               = "reveal not requested"

\* C10: createElection, openElection, closeElection and requestChoiceReveal
\* are refused with "only owner" to every caller but the owner, and a step
\* of one of them is a step by the owner; castVote and resolveChoiceCallback
\* are accepted from any caller whose call meets the other preconditions; no
\* step changes the owner.
C10_OwnerGate ==
    /\ [](\A a \in NonOwners :
            /\ \A labels \in LabelLists, ni \in 0 .. MaxChoices, np \in 0 .. MaxChoices :
                 /\ CreateElectionError(a, labels, ni, np) = "only owner"
                 /\ \A z \in SeedValues : ~ENABLED CreateElection(a, labels, ni, np, z)
            /\ \A id \in Ids :
                 /\ OpenElectionError(a, id) = "only owner"
                 /\ ~ENABLED OpenElection(a, id)
                 /\ CloseElectionError(a, id) = "only owner"
                 /\ ~ENABLED CloseElection(a, id)
                 /\ \A c \in 0 .. MaxChoices :
                      /\ RequestChoiceRevealError(a, id, c) = "only owner"
                      /\ ~ENABLED RequestChoiceReveal(a, id, c))
    /\ [](\A a \in NonOwners, id \in Ids, c \in Choices :
            ( /\ elections[id].state = Open
              /\ c < elections[id].choiceCount
              /\ ~elections[id].hasVoted[a] )
              => \A x \in VoteValues : ENABLED CastVote(a, id, c, x))
    /\ [](\A proof \in ProofInputs, cleartexts \in Cleartexts, id \in Ids, c \in Choices :
            ResolveChoiceCallbackError(id, c, cleartexts, proof) = "ok"
              => \A a \in Addresses :
                    ENABLED ResolveChoiceCallback(a, id, c, cleartexts, proof))
    /\ [][/\ owner' = owner
          /\ last'.op \in {"createElection", "openElection", "closeElection",
                           "requestChoiceReveal"} => last'.caller = owner]_vars

\* a reveal resolved by an address that is not the owner, in an election in
\* which that address also voted
C10_Witness ==
    /\ last.op = "resolveChoiceCallback"
    /\ last.caller \in NonOwners
    /\ elections[last.id].choiceRevealed[last.choice]
    /\ elections[last.id].hasVoted[last.caller]

\* the choiceLabels a caller may pass to createElection: every list of up to
\* MaxChoices labels, empty labels included, and a list of eleven labels
LabelInputs ==
    UNION { [1 .. n -> {"L", ""}] : n \in 0 .. MaxChoices }
      \cup { [i \in 1 .. 11 |-> "L"] }

\* C11: createElection is accepted only with 2 to 10 labels, every label
\* non-empty, and as many zero ciphertexts as labels.
\* Violated: the contract checks only length > 1 and the two lengths; a list
\* with an empty label, and a list of eleven labels, are accepted.
C11_CreateRequiresValidLabels ==
    \A labels \in LabelInputs : \A nInputs \in {Len(labels), 0} :
        CreateElectionError(owner, labels, nInputs, Len(labels)) = "ok"
          => /\ Len(labels) >= 2
             /\ Len(labels) <= 10
             /\ \A i \in 1 .. Len(labels) : labels[i] # ""
             /\ nInputs = Len(labels)

\* the choices of election id that are revealed
RevealedChoices(id) ==
    { c \in Choices : c < elections[id].choiceCount /\ elections[id].choiceRevealed[c] }
AllChoices(id) == { c \in Choices : c < elections[id].choiceCount }

\* C12: for every created election, state = Revealed iff fullyRevealed iff
\* every choice below choiceCount is revealed (and revealedChoiceCount counts
\* the revealed choices); an election becomes Revealed only in the
\* resolveChoiceCallback that reveals its last unrevealed choice.
C12_RevealedIffAllChoicesRevealed ==
    /\ [](\A id \in Ids :
            id < electionCount
              => /\ (elections[id].state = Revealed) <=> elections[id].fullyRevealed
                 /\ elections[id].fullyRevealed
                      <=> (RevealedChoices(id) = AllChoices(id))
                 /\ elections[id].revealedChoiceCount
                      = Cardinality(RevealedChoices(id)))
    /\ [][\A id \in Ids :
            (elections[id].state # Revealed /\ elections'[id].state = Revealed)
              => /\ last'.op = "resolveChoiceCallback"
                 /\ last'.id = id
                 /\ id < electionCount
                 /\ AllChoices(id) \ RevealedChoices(id) = {last'.choice}
                 /\ elections'[id].choiceRevealed[last'.choice]]_vars

\* an election that has just become Revealed with its last choice, next to
\* a created election with one choice revealed that is still Closed
C12_Witness ==
    /\ last.op = "resolveChoiceCallback"
    /\ elections[last.id].state = Revealed
    /\ elections[last.id].fullyRevealed
    /\ \E other \in Ids :
          /\ other < electionCount
          /\ elections[other].state = Closed
          /\ Cardinality(RevealedChoices(other)) = 1

\* the answer, in the state before it, of the call a step has recorded
RecordedCallError(l, labels) ==
    CASE l.op = "createElection" ->
            CreateElectionError(l.caller, labels, l.arg[2], l.arg[3])
      [] l.op = "openElection" -> OpenElectionError(l.caller, l.id)
      [] l.op = "closeElection" -> CloseElectionError(l.caller, l.id)
      [] l.op = "castVote" -> CastVoteError(l.caller, l.id, l.choice)
      [] l.op = "requestChoiceReveal" ->
            RequestChoiceRevealError(l.caller, l.id, l.choice)
      [] l.op = "resolveChoiceCallback" ->
            ResolveChoiceCallbackError(l.id, l.choice, l.arg[1], l.arg[2])
      [] OTHER -> "no call"

C14_PublicOnlyWhenFrozen ==
    /\ [](\A h \in publicDec :
            /\ h.k = "acc"
            /\ h.e \in Ids /\ h.c \in Choices
            /\ h.e < electionCount /\ h.c < elections[h.e].choiceCount
            /\ elections[h.e].state \in {Closed, Revealed}
            /\ elections[h.e].encryptedVotesPerChoice[h.c] = h)
    /\ [][/\ \A h \in publicDec' \ publicDec :
               /\ h.e \in Ids /\ h.c \in Choices
               /\ elections[h.e].state = Closed
               /\ elections[h.e].encryptedVotesPerChoice[h.c] = h
          /\ publicDec \subseteq publicDec'
          /\ \A id \in Ids :
               /\ \A c \in Choices :
                    LET acc == elections[id].encryptedVotesPerChoice[c]
                        acc2 == elections'[id].encryptedVotesPerChoice[c]
                    IN  (acc2 # acc /\ acc2.n # 0)
                          => /\ elections[id].state = Open
                             /\ acc2.n = acc.n + 1
               /\ (id < electionCount /\ elections[id].state \in {Closed, Revealed})
                    => /\ elections'[id].state \in {Closed, Revealed}
                       /\ elections'[id].encryptedVotesPerChoice
                            = elections[id].encryptedVotesPerChoice]_vars

\* a publicly decryptable accumulator that holds a vote, in a Closed election
\* in which a voter who has not voted yet is refused
C14_Witness ==
    \E h \in publicDec, a \in Addresses :
        /\ h.n > 0
        /\ elections[h.e].state = Closed
        /\ ~elections[h.e].hasVoted[a]
        /\ CastVoteError(a, h.e, h.c) = "election not open"

\* C15: a toggle-hidden request for election E is accepted only if the nonce
\* it presents is in the store, was issued for E and has not expired, the
\* signature recovers a signer, and the message that was signed is exactly
\* the clients' text for E and that nonce.
\* Violated: the recovered address is compared with nothing, so a signature
\* made over other text is accepted along with the right message; and the
\* message's election numeral goes through parseInt, so a numeral with a
\* leading zero is accepted too.
C15_ToggleNeedsExactSignedMessage ==
    [][\A electionId \in Ids, nonce \in NonceValues :
        \A message \in MessageInputsFor(electionId, nonce) :
        \A signature \in SignatureInputs(message) :
            ( /\ ToggleHiddenError(electionId, message, signature, nonce) = "ok"
              /\ ToggleHidden(electionId, message, signature, nonce) )
              => /\ \E d \in NonceGet(nonce) :
                      d.electionId = electionId /\ ~(d.expiresAt < now)
                 /\ VerifyMessage(message, signature) # Threw
                 /\ signature.msg = message
                 /\ message = FormatMessage(electionId, nonce)]_vars

\* C16: a nonce is stored with expiresAt = its time of issue + the lifetime
\* and its entry is never changed; a request that presents a nonce whose
\* expiresAt has passed is refused, whether the entry is still in the store
\* or the sweep has removed it, and it toggles nothing.
C16_ExpiredNonceNeverAccepted ==
    /\ [](\A electionId \in Ids, nonce \in issued :
            (\A d \in NonceGet(nonce) : d.expiresAt < now)
              => \A message \in MessageInputsFor(electionId, nonce) :
                 \A signature \in SignatureInputs(message) :
                    ToggleHiddenError(electionId, message, signature, nonce) # "ok")
    /\ [][/\ \A d \in nonceStore' \ nonceStore :
               d.nonce \notin issued /\ d.expiresAt = now + NonceTtl
          /\ \A n \in NonceValues :
               passed'[n] # passed[n]
                 => \E d \in NonceGet(n) : ~(d.expiresAt < now)]_vars

\* an expired nonce that the sweep has not removed, presented with the right
\* message and signature for its election, has just been refused
C16_Witness ==
    /\ resp.route = "toggle-hidden"
    /\ resp.error = "Nonce expired"
    /\ \E d \in nonceStore : d.expiresAt < now /\ d.nonce # resp.nonce
    /\ \E n \in issued : NonceGet(n) = {} /\ passed[n] = 0

\* C17: a toggle-hidden request changes the hidden flag of an election only
\* when the address recovered from its signature is the contract owner's.
\* Violated: the handler recovers the address and compares it with nothing;
\* a correct request signed by any other address toggles the flag.
C17_ToggleOnlyByOwner ==
    [][\A electionId \in Ids, nonce \in NonceValues :
        \A message \in MessageInputsFor(electionId, nonce) :
        \A signature \in SignatureInputs(message) \ {Sign(Deployer, OtherMessage)} :
            ( /\ ToggleHidden(electionId, message, signature, nonce)
              /\ ToggleHiddenError(electionId, message, signature, nonce) = "ok"
              /\ electionMetadata'[electionId].hidden
                   # electionMetadata[electionId].hidden )
              => VerifyMessage(message, signature) = owner]_vars

\* ---------------------------------------------------------------- C18
\* the oracle decrypt calls and the resolve submissions one listener has made
\* over all the invocations of its handler
RECURSIVE SumOver(_, _, _)
SumOver(by, field, i) ==
    IF i = 0 THEN 0
    ELSE SumOver(by, field, i - 1)
         + (IF handlers[i].by = by THEN handlers[i][field] ELSE 0)
DecryptCalls(by) == SumOver(by, "decrypts", Len(handlers))
Submissions(by) == SumOver(by, "submits", Len(handlers))

\* C18: the listener registered by one requestChoiceReveal call, and the one
\* registered by watchTallyRevealAndDecrypt, processes at most one matching
\* event: whatever events are delivered and whenever, it calls the oracle's
\* decrypt at most once and submits the resolve transaction at most once.
C18_ListenerProcessesAtMostOneEvent ==
    \A by \in {"hook", "watch"} :
        /\ DecryptCalls(by) <= 1
        /\ Submissions(by) <= 1

\* ---------------------------------------------------------------- C19
\* the handler invocations that got as far as calling decryptHandle
Processed == { i \in 1 .. Len(handlers) : handlers[i].pc \notin {"skipped", "returned"} }
DecryptFailed == { i \in Processed : handlers[i].err = "decryption failed" }

\* C19: for every event the relay processes it calls the oracle's decrypt
\* exactly once; when that call fails, no second attempt is made, no resolve
\* transaction is submitted for that event, and the failure is propagated to
\* the caller of requestChoiceReveal, whose call is not reported as fulfilled.
C19_SingleDecryptAttempt ==
    /\ \A i \in 1 .. Len(handlers) :
            handlers[i].decrypts = IF i \in Processed THEN 1 ELSE 0
    /\ \A i \in DecryptFailed :
            /\ handlers[i].pc = "failed"
            /\ handlers[i].submits = 0
            /\ handlers[i].by = "hook" => call.pc # "fulfilled"

\* ---------------------------------------------------------------- C20
\* the handler invocations of the hook's listener in which the decrypt call or
\* the resolve submission failed
FailedHandlers ==
    { i \in 1 .. Len(handlers) :
        handlers[i].by = "hook" /\ handlers[i].err \in {"decryption failed", "resolve failed"} }
Settled == call.pc \in {"fulfilled", "rejected"}

\* C20: whenever the relay's decrypt call or its resolve submission fails, the
\* relay deregisters its listener and the error reaches the caller of
\* requestChoiceReveal: the call is not fulfilled, and once it has settled it
\* is rejected.  In every case, once the promise returned by requestChoiceReveal
\* has settled, the listener that call registered is no longer registered.
C20_FailureDeregistersAndReachesCaller ==
    /\ FailedHandlers # {} => "hook" \notin registered
    /\ FailedHandlers # {} => call.pc # "fulfilled"
    /\ Settled => "hook" \notin registered

\* ---------------------------------------------------------------- C21
\* C21 as stated: once a resolveChoiceCallback for a requested choice (id, c)
\* has been refused for its proof, which changes no state and can happen in
\* every state where (id, c) is requested, no resolveChoiceCallback for
\* (id, c) is accepted, whatever cleartext and proof it carries.
C21_RejectedProofStallsReveal ==
    \A id \in Ids, c \in Choices :
        ( /\ Requested(id, c)
          /\ ResolveChoiceCallbackError(id, c, 0, ForgedProof) = "invalid decryption proof" )
          => \A proof \in ProofInputs : \A cleartexts \in CleartextInputs(proof) :
                ResolveChoiceCallbackError(id, c, cleartexts, proof) # "ok"

\* C21, amended: a resolveChoiceCallback for a requested choice that is
\* refused for its proof leaves the choice requested and unrevealed, and does
\* not stall it: the call with the KMS proof over the expected handle and its
\* cleartext is accepted in that state, and the choice stays requested until
\* such a call reveals it.
C21_RejectedProofLeavesResolveOpen ==
    /\ [](\A id \in Ids, c \in Choices :
            Requested(id, c)
              => /\ ResolveChoiceCallbackError(id, c, 0, ForgedProof)
                      = "invalid decryption proof"
                 /\ \E proof \in KmsProofs :
                      /\ proof.handles = << elections[id].expectedHandles[c] >>
                      /\ ResolveChoiceCallbackError(id, c, proof.cleartexts, proof) = "ok")
    /\ [][\A id \in Ids, c \in Choices :
            Requested(id, c)
              => \/ Requested(id, c)'
                 \/ /\ elections'[id].choiceRevealed[c]
                    /\ last'.op = "resolveChoiceCallback"
                    /\ last'.id = id /\ last'.choice = c]_vars

\* a requested choice is revealed by an accepted resolve although, in the
\* state before, a forged proof for it was refused: the other choice of the
\* election is still requested and refuses the forged proof now
C21_Witness ==
    /\ last.op = "resolveChoiceCallback"
    /\ elections[last.id].choiceRevealed[last.choice]
    /\ \E c \in Choices :
          /\ Requested(last.id, c)
          /\ ResolveChoiceCallbackError(last.id, c, 0, ForgedProof)
                = "invalid decryption proof"

\* ---------------------------------------------------------------- C22
\* C22: the event log of the resolveChoiceCallback that reveals the last
\* choice of an election is ChoiceRevealed(id, choiceIndex, voteCount)
\* followed by ElectionFullyRevealed(id); the log of every other accepted
\* resolveChoiceCallback is ChoiceRevealed alone.
\* Violated: the contract emits ElectionFullyRevealed inside the if block,
\* before the ChoiceRevealed that ends the function.
C22_ChoiceRevealedBeforeFullyRevealed ==
    last.op = "resolveChoiceCallback"
      => LET choiceRevealed == <<"ChoiceRevealed", last.id, last.choice,
                                 elections[last.id].revealedVotesPerChoice[last.choice]>>
         IN  IF elections[last.id].fullyRevealed
               THEN events = << choiceRevealed, <<"ElectionFullyRevealed", last.id>> >>
               ELSE events = << choiceRevealed >>

\* ---------------------------------------------------------------- C23
\* C23: over any sequence of operations ElectionFullyRevealed(id) is emitted
\* at most once for every election, and ChoiceRevealed(id, c, n) at most once
\* for every choice c, whatever n: each has been emitted exactly once when
\* the flag it announces is set and never before.
C23_RevealEventsAtMostOnce ==
    \A id \in Ids :
        /\ emitted[<<id, -1>>] <= 1
        /\ emitted[<<id, -1>>] = (IF elections[id].fullyRevealed THEN 1 ELSE 0)
        /\ \A c \in Choices :
              /\ emitted[<<id, c>>] <= 1
              /\ emitted[<<id, c>>] = (IF elections[id].choiceRevealed[c] THEN 1 ELSE 0)

\* an election whose events have all been emitted, after which another
\* election has been taken through close and a reveal request
C23_Witness ==
    \E id \in Ids :
        /\ emitted[<<id, -1>>] = 1
        /\ \A c \in Choices : emitted[<<id, c>>] = 1
        /\ last.op = "requestChoiceReveal"
        /\ last.id # id

\* ---------------------------------------------------------------- C24
\* the event a listener is registered for: the hook's for (id, choiceIndex),
\* the watcher's for its election
OwnEvent(h) ==
    IF h.by = "hook"
      THEN h.event.id = call.id /\ h.event.choiceIdx = call.choiceIndex
      ELSE h.event.id = watch.electionId

\* C24: a relay listener never decrypts, and never submits a resolve with,
\* the handle of an event emitted for another election or for another choice
\* of its election: the subscription filter keeps other elections' events
\* from the hook's handler, every other such event is skipped, and skipping
\* leaves the listener registered and the call waiting as before.
C24_ForeignEventsSkipped ==
    /\ [](\A i \in 1 .. Len(handlers) :
            /\ handlers[i].by = "hook" => handlers[i].event.id = call.id
            /\ ~OwnEvent(handlers[i])
                 => /\ handlers[i].pc = "skipped"
                    /\ handlers[i].decrypts = 0
                    /\ handlers[i].submits = 0
            /\ (handlers[i].decrypts > 0 /\ handlers[i].by = "hook")
                 => handlers[i].event.handle = EventHandle(call.id, call.choiceIndex))
    /\ [][(/\ Len(handlers') = Len(handlers) + 1
           /\ ~OwnEvent(handlers'[Len(handlers')]))
            => /\ handlers'[Len(handlers')].by \in registered'
               /\ UNCHANGED <<call, eventPromise, watch, registered>>
               /\ SubSeq(handlers', 1, Len(handlers)) = handlers]_vars

\* the hook's listener has skipped an event of the other choice and is then
\* processing the event of its own choice
C24_Witness ==
    /\ Len(handlers) = 2
    /\ handlers[1].by = "hook" /\ handlers[1].pc = "skipped"
    /\ handlers[1].event.choiceIdx # call.choiceIndex
    /\ handlers[2].by = "hook" /\ handlers[2].pc = "submitting"
    /\ handlers[2].event.choiceIdx = call.choiceIndex

\* ---------------------------------------------------------------- C25
\* C25: tearing down the relay's listener changes no contract state.  A step
\* that removes the listener leaves the contract's storage as it was, unless
\* it is the confirmation of the resolve transaction the relay itself sent; a
\* requested, unrevealed choice stays so until a resolve reveals it, whatever
\* happens to the relay; and while it is requested, the resolve carrying the
\* oracle's result for the stored expected handle is accepted from any caller.
C25_TeardownLeavesContractState ==
    /\ [][(registered' # registered /\ registered' \subseteq registered)
            => \/ UNCHANGED <<ledger, events, last>>
               \/ /\ last'.op = "resolveChoiceCallback"
                  /\ \E i \in 1 .. Len(handlers) :
                        /\ handlers[i].pc = "submitting" /\ handlers'[i].pc = "done"
                        /\ last'.id = handlers[i].event.id
                        /\ last'.choice = handlers[i].event.choiceIdx]_vars
    /\ [][\A id \in Ids, c \in Choices :
            Requested(id, c)
              => \/ Requested(id, c)'
                 \/ /\ elections'[id].choiceRevealed[c]
                    /\ last'.op = "resolveChoiceCallback"
                    /\ last'.id = id /\ last'.choice = c]_vars
    /\ [](\A id \in Ids, c \in Choices :
            Requested(id, c)
              => LET result == PublicDecrypt(elections[id].expectedHandles[c])
                 IN  \A a \in Addresses :
                        ENABLED ResolveChoiceCallback(a, id, c, result.cleartexts, result))

\* the relay was torn down by a failed decrypt with the choice requested and
\* unrevealed, handleRevealTally gave up, and the choice has since been
\* resolved by a caller who is not the owner
C25_Witness ==
    /\ tally.pc = "failed"
    /\ registered = {}
    /\ last.op = "resolveChoiceCallback"
    /\ last.caller # owner
    /\ \E i \in 1 .. Len(handlers) :
          /\ handlers[i].err = "decryption failed"
          /\ handlers[i].event.id = last.id
          /\ handlers[i].event.choiceIdx = last.choice
          /\ elections[last.id].choiceRevealed[last.choice]

\* ---------------------------------------------------------------- C26
\* the run of handleRevealTally is over
TallyOver == tally.pc \in {"done", "failed"}
\* every choice revealed since the run began was revealed by the run's relay
RevealedByRelay ==
    \A c \in Choices :
        (elections[tally.id].choiceRevealed[c] /\ c \notin tally.revealedAtStart)
          => \E i \in 1 .. Len(handlers) :
                handlers[i].pc = "done" /\ handlers[i].event.choiceIdx = c

\* C26: handleRevealTally run by the owner on a Closed election in which some
\* of the choices are already revealed, and where it is left to itself and
\* every transaction is confirmed and every decrypt succeeds, skips each
\* already-revealed choice, reveals every other choice and ends without
\* reporting a failure, wherever the already-revealed choices are.
\* Violated: when an already-revealed choice comes after the last unrevealed
\* one, revealing the latter makes the election Revealed and the request for
\* the former fails with "must be closed", which is not skipped.
C26_RevealTallySkipsRevealed ==
    (TallyOver /\ RevealedByRelay)
      => /\ tally.pc = "done"
         /\ tally.skippedCount = Cardinality(tally.revealedAtStart)
         /\ tally.successCount = tally.n - Cardinality(tally.revealedAtStart)
         /\ \A c \in Choices : c < tally.n => elections[tally.id].choiceRevealed[c]

\* ---------------------------------------------------------------- C27
\* C27: once the owner has started handleRevealTally on a Closed election,
\* and every transaction is confirmed unless the contract refuses it, the
\* oracle decrypts and every emitted event is delivered, every
\* requestChoiceReveal call of the run eventually settles, the run ends, and
\* the election eventually is Revealed.
C27_RevealFlowCompletes ==
    /\ (tally.pc # "idle")
          ~> (TallyOver /\ call.pc = "idle" /\ elections[tally.id].state = Revealed)
    /\ \A pc \in {"requesting", "awaiting"} :
          (call.pc = pc) ~> (call.pc \in {"fulfilled", "rejected"})

\* a run that made one call per choice, each fulfilled, and left the election
\* Revealed
C27_Witness ==
    /\ tally.pc = "done"
    /\ tally.successCount = tally.n
    /\ tally.n = MaxChoices
    /\ elections[tally.id].state = Revealed
    /\ \A c \in Choices :
          \E i \in 1 .. Len(handlers) :
              handlers[i].pc = "done" /\ handlers[i].event.choiceIdx = c
\* ---------------------------------------------------------------- C28
\* the step is a toggle-hidden request for electionId that passed every check
\* and was answered with success
ToggleSucceeded(electionId) ==
    /\ passed' # passed
    /\ resp'.route = "toggle-hidden"
    /\ resp'.id = electionId
    /\ resp'.status = 200

\* C28: a successful toggle-hidden request leaves the description, the three
\* times and the image URL stored for its election as they were.
\* Violated: the route saves the object { electionId, hidden }, and the
\* store's Map.set puts it in the place of the whole entry, so every other
\* field the entry had is gone.
C28_ToggleChangesOnlyHidden ==
    [][\A electionId \in Ids :
        ToggleSucceeded(electionId) =>
            /\ electionMetadata'[electionId].description
                  = electionMetadata[electionId].description
            /\ electionMetadata'[electionId].votingStartTime
                  = electionMetadata[electionId].votingStartTime
            /\ electionMetadata'[electionId].votingEndTime
                  = electionMetadata[electionId].votingEndTime
            /\ electionMetadata'[electionId].resultRevealTime
                  = electionMetadata[electionId].resultRevealTime
            /\ electionMetadata'[electionId].imageUrl
                  = electionMetadata[electionId].imageUrl]_vars

\* ---------------------------------------------------------------- C29
\* C29: the hidden flag stored for an election, as its readers take it
\* (a missing field reads as not hidden), changes only in a successful
\* toggle-hidden request; no POST /api/election-metadata changes it.
\* Violated: a body without a hidden field passes the route's check and is
\* saved in the place of the whole entry, so an election that was hidden
\* is stored without the flag.
C29_HiddenChangesOnlyByToggle ==
    [][\A electionId \in Ids :
        electionMetadata'[electionId].hidden # electionMetadata[electionId].hidden
            => ToggleSucceeded(electionId)]_vars

\* ---------------------------------------------------------------- C30
\* the step ends a call of handleDeleteElection for election id with the
\* server's success
DeleteSucceeded(id) ==
    /\ deleting.pc = "signing"
    /\ deleting.id = id
    /\ deleting'.pc = "idle"
    /\ ToggleSucceeded(id)

\* C30: every successful delete of an election leaves its hidden flag true,
\* the first one and each later one alike.
\* Violated: the delete is a toggle-hidden request, which stores the negation
\* of the flag it finds; a delete of an election that is hidden already
\* stores hidden = false.
C30_DeleteHidesForGood ==
    [][\A id \in Ids : DeleteSucceeded(id) => electionMetadata'[id].hidden]_vars
\* ---------------------------------------------------------------- C31
\* C31: initApp ends by one call of renderApp: never a second one, at once
\* when the global is there as initApp starts, at the first timer poll that
\* finds the global, after at most 100 polls and maxWait milliseconds
\* whatever the SDK does; once rendered, no timer is pending; and under the
\* fairness of the timer the render does happen.
C31_InitAppRendersOnce ==
    /\ [](boot.rendered <= 1)
    /\ [](boot.rendered = 1 => ~boot.timer /\ boot.pc = "done")
    /\ [](boot.polls <= 100 /\ boot.waited <= MaxWait)
    /\ [][boot.sdk /\ boot.pc # "done" /\ boot' # boot => boot'.rendered = 1]_vars
    /\ [][boot'.rendered # boot.rendered =>
            boot.sdk \/ boot'.waited = MaxWait]_vars
    /\ <>(boot.rendered = 1)

\* the SDK never loaded and the last poll rendered the app
C31_Witness ==
    /\ boot.rendered = 1
    /\ ~boot.sdk
    /\ boot.polls = 99
    /\ boot.waited = MaxWait
\* ---------------------------------------------------------------- C32
\* C32: an election id that createElection has not assigned yet holds no
\* stored data: every field of elections[id] is the default one, the state
\* Created included, for every id >= electionCount.
\* Violated: openElection and closeElection check the stored state and never
\* compare the id with electionCount, and the default state is Created, so
\* the owner opens (and then closes) an election that does not exist.
C32_UncreatedElectionsUntouched ==
    \A id \in Ids : id >= electionCount => elections[id] = EmptyElection
\* ---------------------------------------------------------------- C33
\* the ciphertext additions applied to the accumulators of election id
RECURSIVE AdditionsBelow(_, _)
AdditionsBelow(id, c) ==
    IF c = 0 THEN 0
    ELSE AdditionsBelow(id, c - 1) + elections[id].encryptedVotesPerChoice[c - 1].n
Additions(id) == AdditionsBelow(id, MaxChoices)

\* every ballot cast in election id encrypts 1
AllVotesAreOne(id) ==
    \A a \in Addresses : elections[id].hasVoted[a] => elections[id].userVotes[a].v = 1

\* C33: in every election the additions applied over all accumulators are as
\* many as the addresses that have voted, and, when every ballot encrypts 1
\* (the oracle of the model is honest), the count committed for a revealed
\* choice is the number of votes accepted for that choice.
\* Violated: an accumulator starts from the ciphertext the owner passed as
\* zeroInputs[i], which the contract never checks to encrypt 0; with a seed
\* of 1 the committed count is one more than the votes cast.
C33_VoteConservation ==
    \A id \in Ids :
        /\ Additions(id) = Cardinality({ a \in Addresses : elections[id].hasVoted[a] })
        /\ AllVotesAreOne(id) =>
              \A c \in RevealedChoices(id) :
                  elections[id].revealedVotesPerChoice[c]
                    = elections[id].encryptedVotesPerChoice[c].n
\* ---------------------------------------------------------------- C34
\* C34: in every election revealedChoiceCount is the number of choice
\* indices whose choiceRevealed flag is set and is at most choiceCount; no
\* step lowers it, clears a flag that is set, or changes the count committed
\* for a revealed choice.
C34_RevealCountsMonotone ==
    /\ [](\A id \in Ids :
            /\ elections[id].revealedChoiceCount
                 = Cardinality({ c \in Choices : elections[id].choiceRevealed[c] })
            /\ elections[id].revealedChoiceCount <= elections[id].choiceCount)
    /\ [][\A id \in Ids :
            /\ elections'[id].revealedChoiceCount >= elections[id].revealedChoiceCount
            /\ \A c \in Choices :
                  elections[id].choiceRevealed[c] =>
                    /\ elections'[id].choiceRevealed[c]
                    /\ elections'[id].revealedVotesPerChoice[c]
                         = elections[id].revealedVotesPerChoice[c]]_vars

\* an election with every choice revealed, one of them with votes, while
\* another election has been created after it
C34_Witness ==
    \E id \in Ids :
        /\ id + 1 < electionCount
        /\ elections[id].choiceCount > 0
        /\ elections[id].revealedChoiceCount = elections[id].choiceCount
        /\ \E c \in Choices : elections[id].revealedVotesPerChoice[c] > 0
\* ---------------------------------------------------------------- C35
\* C35: the hidden flag of an election, false at first, is true exactly
\* when the successful toggle-hidden requests for the election so far are
\* odd in number, whatever other requests the server has handled between.
\* Violated: a metadata POST handled between two toggles stores an entry
\* without the flag (C29), so the flag no longer follows the toggles.
C35_HiddenFollowsToggleParity ==
    \A electionId \in Ids : electionMetadata[electionId].hidden = flips[electionId]
\* ---------------------------------------------------------------- C36
\* C36: the id under which the hook's createElection saves its metadata is
\* the id the contract assigned in the hook's own transaction, whatever
\* other createElection transactions were confirmed before the hook read
\* electionCount.
\* Violated: the hook takes electionCount - 1, read after the confirmation,
\* which is the id of the newest election, not of its own.
C36_MetadataUnderOwnElection ==
    creating.pc \in {"read", "saved"} => creating.newElectionId = creating.made
\* ---------------------------------------------------------------- C37
\* C37: when loadData() completes, every entry the map holds, which was
\* saved while the read was under way, is in the map afterwards.
\* Violated: with a data file on the disk loadData() assigns a new Map built
\* from the file alone, and the entries saved before that are gone.
C37_SavesSurviveLoad ==
    [][loading = "reading" /\ loading' = "done" =>
         \A id \in Ids :
            electionMetadata[id].present => electionMetadata'[id] = electionMetadata[id]]_vars
C39_OneFhevmInstance ==
    /\ \A p \in FheCallers, q \in FheCallers :
            fhevm.calls[p].pc = "returned" /\ fhevm.calls[q].pc = "returned"
                => fhevm.calls[p].returned = fhevm.calls[q].returned
    /\ (\A p \in FheCallers : fhevm.calls[p].pc # "threw") => fhevm.created <= 1

====
